---- MODULE Spec2Model ----
(***************************************************************************)
(* Verification model of the PDF -> Markdown OCR pipeline.                 *)
(*                                                                         *)
(* Sub-models, each with its own specification over the same variables:    *)
(*   SpecCache    infrastructure/ocr_cache.py (OCRCache)                   *)
(*   SpecRefiner  adapters/llm_services.py, adapters/llm_refiner.py        *)
(*   SpecDoc      adapters/ocr/ocr_engine.py, adapters/ocr/engine.py,      *)
(*                adapters/document_processing.py (sequential paths) and   *)
(*                application/use_cases/pdf_to_markdown.py                 *)
(*   SpecPar      adapters/document_processing.py run_parallel_ocr and     *)
(*                adapters/pymupdf_adapter.py extract_markdown             *)
(***************************************************************************)
EXTENDS Integers, Sequences, FiniteSets, TLC

VARIABLES
    db,        \* ocr_results table: image_hash -> row or NoRow
    mem,       \* lru_cache of _get_from_memory_cache: keys, least recent first
    clock,     \* datetime.now(), advanced by every save
    saved,     \* ghost: arguments of the last successful save per key
    cacheOp,   \* last OCRCache call: operation, inputs, outcome
    refOp,     \* last LLMRefiner call: operation, inputs, outcome
    docOp,     \* last document-level call: operation, inputs, outcome
    pool,      \* run_parallel_ocr: executor, tasks, workers, results
    conc,      \* worker processes sharing the cache database: locks, positions
    imgOp      \* last image/table-layer call: operation, inputs, outcome

vars == <<db, mem, clock, saved, cacheOp, refOp, docOp, pool, conc, imgOp>>

cacheVars == <<db, mem, clock, saved, cacheOp>>

(***************************************************************************)
(* Python values shared by the sub-models                                  *)
(***************************************************************************)
PyNone == [py |-> "None"]

PyDict(items) == [py |-> "dict", items |-> items]

PyInt(n) == [py |-> "int", val |-> n]

\* Python truthiness of None, dict and int values
Truthy(v) ==
    CASE v.py = "None" -> FALSE
      [] v.py = "dict" -> Len(v.items) > 0
      [] v.py = "int" -> v.val # 0
      [] OTHER -> TRUE

\* a = b for two dicts: same key/value pairs, insertion order ignored
DictEq(a, b) ==
    /\ a.py = "dict"
    /\ b.py = "dict"
    /\ {a.items[i] : i \in DOMAIN a.items} = {b.items[i] : i \in DOMAIN b.items}

RECURSIVE SumSeq(_)
SumSeq(s) == IF s = <<>> THEN 0 ELSE Head(s) + SumSeq(Tail(s))

SetToSeq(S) ==
    CHOOSE f \in [1..Cardinality(S) -> S] : \A i, j \in 1..Cardinality(S) : i # j => f[i] # f[j]

SetMax(S) == CHOOSE x \in S : \A y \in S : y <= x

(***************************************************************************)
(* OCRCache  (infrastructure/ocr_cache.py)                                 *)
(***************************************************************************)
MaxClock == 3

MemMaxSize == 50

Keys == {"h1", "h2"}

NoRow == [present |-> FALSE]

\* json.dumps of a str-keyed dict: the text as a token sequence
RECURSIVE JsonItems(_)
JsonItems(items) ==
    IF items = <<>> THEN <<>>
    ELSE <<items[1][1], ":", items[1][2]>>
         \o (IF Len(items) > 1 THEN <<",">> ELSE <<>>)
         \o JsonItems(Tail(items))

json_dumps(d) == <<"{">> \o JsonItems(d.items) \o <<"}">>

\* json.loads of an object text: tokens between the braces, 4 per item
RECURSIVE ParseItems(_)
ParseItems(toks) ==
    IF Len(toks) < 3 THEN <<>>
    ELSE <<<<toks[1], toks[3]>>>>
         \o ParseItems(IF Len(toks) > 4 THEN SubSeq(toks, 5, Len(toks)) ELSE <<>>)

json_loads(toks) == PyDict(ParseItems(SubSeq(toks, 2, Len(toks) - 1)))

\* arguments a caller may pass to save_ocr_result (text, confidence,
\* language, metadata: Dict[str, Any] = None)
SaveInputs ==
    { [text |-> <<>>,          confidence |-> 0, language |-> "es", metadata |-> PyNone],
      [text |-> <<"a">>,       confidence |-> 1, language |-> "es", metadata |-> PyDict(<<>>)],
      [text |-> <<"a", "b">>,  confidence |-> 1, language |-> "en",
       metadata |-> PyDict(<<<<"psm", "6">>>>)],
      [text |-> <<"b">>,       confidence |-> 0, language |-> "en",
       metadata |-> PyDict(<<<<"psm", "6">>, <<"dpi", "300">>>>)] }

\* points at which the sqlite3 calls of one handler may fail
GetFailPoints == {"none", "connect", "execute"}

SaveFailPoints == {"none", "connect", "execute", "commit"}

\* functools.lru_cache bookkeeping of _get_from_memory_cache(image_hash)
LruTouch(m, k) ==
    LET without == SelectSeq(m, LAMBDA x : x # k)
        grown == Append(without, k)
    IN  IF Len(grown) > MemMaxSize THEN Tail(grown) ELSE grown

\* _get_from_memory_cache: the wrapped body is `return None`, so a hit and a
\* miss both give None
_get_from_memory_cache(m, k) == [ret |-> PyNone, mem |-> LruTouch(m, k)]

\* _save_to_memory_cache: cache_clear(), then one call that caches None
_save_to_memory_cache(m, k) == _get_from_memory_cache(<<>>, k).mem

RowResult(row) ==
    [py |-> "dict",
     text |-> row.ocr_text,
     confidence |-> row.confidence,
     language |-> row.language,
     metadata |-> IF Len(row.metadata) > 0 THEN json_loads(row.metadata) ELSE PyDict(<<>>)]

\* get_cached_ocr_result(image_hash)
get_cached_ocr_result(d, m, k, fail) ==
    LET look == _get_from_memory_cache(m, k)
    IN  IF Truthy(look.ret)
        THEN [ret |-> look.ret, raised |-> FALSE, mem |-> look.mem]
        ELSE IF fail # "none"
             THEN [ret |-> PyNone, raised |-> FALSE, mem |-> look.mem]
             ELSE IF d[k].present
                  THEN [ret |-> RowResult(d[k]), raised |-> FALSE,
                        mem |-> _save_to_memory_cache(look.mem, k)]
                  ELSE [ret |-> PyNone, raised |-> FALSE, mem |-> look.mem]

\* variant: INSERT OR IGNORE keeps the row already stored for the key
InsertOrIgnore(d, k, row) == IF d[k].present THEN d ELSE [d EXCEPT ![k] = row]

\* INSERT OR REPLACE INTO ocr_results VALUES (?, ?, ?, ?, ?, ?)
InsertOrReplace(d, k, row) == [d EXCEPT ![k] = row]

\* `metadata = metadata or {}`
NormalizedMetadata(md) == IF Truthy(md) THEN md ELSE PyDict(<<>>)

SaveRow(now, a) ==
    [present |-> TRUE, ocr_text |-> a.text, confidence |-> a.confidence,
     language |-> a.language, timestamp |-> now,
     metadata |-> json_dumps(NormalizedMetadata(a.metadata))]

\* variant: a connection in autocommit mode, the INSERT is durable before commit()
save_ocr_result_autocommit(d, m, now, k, a, fail) ==
    LET executed == fail \notin {"connect", "execute"}
        written == IF executed THEN InsertOrReplace(d, k, SaveRow(now, a)) ELSE d
    IN  IF fail # "none"
        THEN [ret |-> FALSE, raised |-> FALSE, db |-> written, mem |-> m]
        ELSE [ret |-> TRUE, raised |-> FALSE, db |-> written,
              mem |-> _save_to_memory_cache(m, k)]

\* save_ocr_result(image_hash, text, confidence, language, metadata): the
\* whole body is inside try/except Exception; the INSERT runs in a
\* transaction that only conn.commit() makes durable, and an exception
\* drops the connection with the transaction still open
save_ocr_result(d, m, now, k, a, fail) ==
    LET executed == fail \notin {"connect", "execute"}
        pending == IF executed THEN InsertOrReplace(d, k, SaveRow(now, a)) ELSE d
        committed == executed /\ fail # "commit"
    IN  IF ~committed
        THEN [ret |-> FALSE, raised |-> FALSE, db |-> d, mem |-> m]
        ELSE [ret |-> TRUE, raised |-> FALSE, db |-> pending,
              mem |-> _save_to_memory_cache(m, k)]

\* variant: the persistent rows are deleted whatever memory_only says
clear_cache_ignores_flag(d, memory_only, fail) ==
    [db |-> IF fail # "none" THEN d ELSE [k \in Keys |-> NoRow],
     mem |-> <<>>, raised |-> FALSE]

\* clear_cache(memory_only): DELETE FROM ocr_results unless memory_only
clear_cache(d, memory_only, fail) ==
    [db |-> IF memory_only \/ fail # "none" THEN d ELSE [k \in Keys |-> NoRow],
     mem |-> <<>>, raised |-> FALSE]

\* len(x) of a Python value: defined for sized values only
PyLenRaises(v) == v.py \notin {"dict", "str", "list"}

\* get_stats()
get_stats(d, m, fail) ==
    LET present == {k \in Keys : d[k].present}
        total_entries == Cardinality(present)
        sizes == [i \in 1..Cardinality(present) |-> Len(d[SetToSeq(present)[i]].ocr_text)]
        total_text_size == SumSeq(sizes)
        last_update == IF present = {} THEN PyNone
                       ELSE PyInt(SetMax({d[k].timestamp : k \in present}))
        currsize == PyInt(Len(m))
    IN  IF fail # "none" \/ PyLenRaises(currsize)
        THEN [py |-> "dict", error |-> IF fail # "none" THEN "OperationalError" ELSE "TypeError"]
        ELSE [py |-> "dict", total_entries |-> total_entries,
              total_text_size_bytes |-> total_text_size,
              memory_cache_size |-> Len(m),
              last_update |-> last_update]

InitCacheVars ==
    /\ db = [k \in Keys |-> NoRow]
    /\ mem = <<>>
    /\ clock = 0
    /\ saved = [k \in Keys |-> PyNone]
    /\ cacheOp = [op |-> "init"]

GetCached ==
    \E k \in Keys, fail \in GetFailPoints :
        LET r == get_cached_ocr_result(db, mem, k, fail)
        IN  /\ mem' = r.mem
            /\ cacheOp' = [op |-> "get", key |-> k, fail |-> fail,
                           ret |-> r.ret, raised |-> r.raised]
            /\ UNCHANGED <<db, clock, saved>>

SaveResult ==
    \E k \in Keys, a \in SaveInputs, fail \in SaveFailPoints :
        /\ clock < MaxClock
        /\ LET r == save_ocr_result(db, mem, clock + 1, k, a, fail)
           IN  /\ db' = r.db
               /\ mem' = r.mem
               /\ clock' = clock + 1
               /\ saved' = IF r.ret
                           THEN [saved EXCEPT ![k] =
                                   [py |-> "args", args |-> a, at |-> clock + 1,
                                    n |-> IF saved[k] = PyNone THEN 1 ELSE saved[k].n + 1]]
                           ELSE saved
               /\ cacheOp' = [op |-> "save", key |-> k, args |-> a, fail |-> fail,
                              ret |-> r.ret, raised |-> r.raised]

ClearCache ==
    \E memory_only \in BOOLEAN, fail \in {"none", "execute"} :
        LET r == clear_cache(db, memory_only, fail)
        IN  /\ db' = r.db
            /\ mem' = r.mem
            /\ saved' = IF r.db = db THEN saved ELSE [k \in Keys |-> PyNone]
            /\ cacheOp' = [op |-> "clear", memory_only |-> memory_only, fail |-> fail,
                           raised |-> r.raised]
            /\ UNCHANGED clock

GetStats ==
    \E fail \in {"none", "connect"} :
        /\ cacheOp' = [op |-> "get_stats", fail |-> fail, ret |-> get_stats(db, mem, fail)]
        /\ UNCHANGED <<db, mem, clock, saved>>

(***************************************************************************)
(* OCRCache shared by worker processes.  Every call opens its own          *)
(* sqlite3 connection to the one database file; SQLite serialises the      *)
(* connections with file locks: SHARED for a SELECT, RESERVED from the     *)
(* INSERT of a transaction, EXCLUSIVE while commit() writes the file.  A   *)
(* connection that cannot get its lock within the timeout raises           *)
(* OperationalError ("database is locked").                                *)
(***************************************************************************)
MaxWorkers == 3

Workers == 1..MaxWorkers

ConcArgs ==
    {a \in SaveInputs : a.text \in {<<"a">>, <<"b">>}}

\* the call of one worker and its position in the handler
ConcCalls ==
    [fn : {"save"}, key : Keys, args : ConcArgs, pc : {"call"}, ret : {PyNone},
     row : {NoRow}, mem : {<<>>}]
    \cup
    [fn : {"get"}, key : Keys, args : {PyNone}, pc : {"call"}, ret : {PyNone},
     row : {NoRow}, mem : {<<>>}]

NoLock == [reserved |-> 0, exclusive |-> FALSE, shared |-> {}]

\* variant: a reader that takes no lock
CanReadUnlocked(lock) == TRUE

\* cursor.execute("SELECT ..."): SHARED is granted unless a writer is
\* writing the file
CanRead(lock) == ~lock.exclusive

\* cursor.execute("INSERT OR REPLACE ..."): one connection at a time holds
\* RESERVED
CanReserve(lock) == lock.reserved = 0

\* conn.commit(): EXCLUSIVE is granted once no other connection reads
CanCommit(lock, w) == lock.shared \ {w} = {}

\* the file while commit() has written the first part of the new row
TornRow(old, new) ==
    [present |-> TRUE, ocr_text |-> new.ocr_text, confidence |-> new.confidence,
     language |-> IF old.present THEN old.language ELSE "",
     timestamp |-> IF old.present THEN old.timestamp ELSE 0,
     metadata |-> IF old.present THEN old.metadata ELSE <<>>]

Proc(w) == conc.procs[w]

\* save_ocr_result up to cursor.execute: the row waits in the transaction
SaveExecute(w) ==
    /\ conc.phase = "run"
    /\ Proc(w).fn = "save"
    /\ Proc(w).pc = "call"
    /\ CanReserve(conc.lock)
    /\ clock' = clock + 1
    /\ conc' = [conc EXCEPT !.lock.reserved = w,
                            !.procs[w].pc = "reserved",
                            !.procs[w].row = SaveRow(clock + 1, Proc(w).args),
                            !.executed[Proc(w).key] = @ \cup {SaveRow(clock + 1, Proc(w).args)}]
    /\ UNCHANGED db

\* conn.commit() gets EXCLUSIVE
SaveCommitLock(w) ==
    /\ conc.phase = "run"
    /\ Proc(w).pc = "reserved"
    /\ CanCommit(conc.lock, w)
    /\ conc' = [conc EXCEPT !.lock.exclusive = TRUE, !.procs[w].pc = "exclusive"]
    /\ UNCHANGED <<db, clock>>

\* conn.commit() writes the file: first part of the row
SaveWrite1(w) ==
    /\ conc.phase = "run"
    /\ Proc(w).pc = "exclusive"
    /\ db' = [db EXCEPT ![Proc(w).key] = TornRow(@, Proc(w).row)]
    /\ conc' = [conc EXCEPT !.procs[w].pc = "writing"]
    /\ UNCHANGED clock

\* conn.commit() writes the rest of the row and releases the locks
SaveWrite2(w) ==
    /\ conc.phase = "run"
    /\ Proc(w).pc = "writing"
    /\ db' = InsertOrReplace(db, Proc(w).key, Proc(w).row)
    /\ conc' = [conc EXCEPT !.lock = [@ EXCEPT !.reserved = 0, !.exclusive = FALSE],
                            !.procs[w].pc = "committed",
                            !.committed[Proc(w).key] = @ \cup {Proc(w).row}]
    /\ UNCHANGED clock

\* conn.close(), memory layer update, return True
SaveReturn(w) ==
    /\ conc.phase = "run"
    /\ Proc(w).pc = "committed"
    /\ conc' = [conc EXCEPT !.procs[w].pc = "done",
                            !.procs[w].ret = TRUE,
                            !.procs[w].mem = _save_to_memory_cache(@, Proc(w).key)]
    /\ UNCHANGED <<db, clock>>

\* the INSERT or the commit timed out waiting for its lock: the except
\* branch returns False and the open transaction is dropped
SaveBusy(w) ==
    /\ conc.phase = "run"
    /\ Proc(w).fn = "save"
    /\ \/ Proc(w).pc = "call" /\ ~CanReserve(conc.lock)
       \/ Proc(w).pc = "reserved" /\ ~CanCommit(conc.lock, w)
    /\ conc' = [conc EXCEPT !.lock.reserved = IF @ = w THEN 0 ELSE @,
                            !.procs[w].pc = "done",
                            !.procs[w].ret = FALSE]
    /\ UNCHANGED <<db, clock>>

\* get_cached_ocr_result up to cursor.fetchone(): memory layer miss, then
\* the row is read under SHARED
GetSelect(w) ==
    /\ conc.phase = "run"
    /\ Proc(w).fn = "get"
    /\ Proc(w).pc = "call"
    /\ ~Truthy(_get_from_memory_cache(Proc(w).mem, Proc(w).key).ret)
    /\ CanRead(conc.lock)
    /\ conc' = [conc EXCEPT !.lock.shared = @ \cup {w},
                            !.procs[w].pc = "read",
                            !.procs[w].row = db[Proc(w).key],
                            !.procs[w].mem = _get_from_memory_cache(@, Proc(w).key).mem]
    /\ UNCHANGED <<db, clock>>

\* conn.close() and the result built from the row
GetReturn(w) ==
    /\ conc.phase = "run"
    /\ Proc(w).pc = "read"
    /\ conc' = [conc EXCEPT !.lock.shared = @ \ {w},
                            !.procs[w].pc = "done",
                            !.procs[w].ret = IF Proc(w).row.present
                                             THEN RowResult(Proc(w).row) ELSE PyNone,
                            !.procs[w].mem = IF Proc(w).row.present
                                             THEN _save_to_memory_cache(@, Proc(w).key)
                                             ELSE @]
    /\ UNCHANGED <<db, clock>>

\* the SELECT timed out waiting for SHARED: the except branch returns None
GetBusy(w) ==
    /\ conc.phase = "run"
    /\ Proc(w).fn = "get"
    /\ Proc(w).pc = "call"
    /\ ~CanRead(conc.lock)
    /\ conc' = [conc EXCEPT !.procs[w].pc = "done",
                            !.procs[w].mem = _get_from_memory_cache(@, Proc(w).key).mem]
    /\ UNCHANGED <<db, clock>>

(***************************************************************************)
(* Image layer: segmentation mode estimators                               *)
(* (adapters/ocr/image_processing.py, adapters/ocr/ocr_image.py)           *)
(***************************************************************************)
MaxContours == 60

\* variant: the boundary value 20 goes to the upper bucket
image_processing_estimate_psm_for_page_upper(num_boxes) ==
    IF num_boxes < 5 THEN 7
    ELSE IF num_boxes > 50 THEN 11
    ELSE IF 20 <= num_boxes /\ num_boxes <= 50 THEN 4
    ELSE 6

\* image_processing.estimate_psm_for_page(img_pil), as a function of
\* num_boxes = len(contours)
image_processing_estimate_psm_for_page(num_boxes) ==
    IF num_boxes < 5 THEN 7
    ELSE IF num_boxes > 50 THEN 11
    ELSE IF 20 < num_boxes /\ num_boxes <= 50 THEN 4
    ELSE 6

MaxBlocks == 4

\* (x0, x1) of a text block
BlockEdges == {<<0, 1>>, <<0, 5>>, <<4, 9>>, <<6, 9>>}

\* img.size: square, wide, and a page rendered at a higher resolution than
\* the block coordinates
ImageSizes == {<<10, 10>>, <<14, 10>>, <<50, 50>>}

\* len(page.get_text().strip())
TextLengths == {0, 49, 50, 60, 100, 101}

\* int(pos / (width * 0.2))
RangeId(pos, width) == (5 * pos) \div width

\* x_ranges: the ranges hit by the left and right edges of the blocks
XRanges(text_blocks, width) ==
    {RangeId(text_blocks[i][1], width) : i \in DOMAIN text_blocks}
    \cup {RangeId(text_blocks[i][2], width) : i \in DOMAIN text_blocks}

\* the estimator with the column test ahead of the has_text test
estimate_psm_for_page_columns_first(text_len, text_blocks, size) ==
    LET width == size[1]
        height == size[2]
        has_text == text_len > 100
        block_count == Len(text_blocks)
        columns == IF block_count > 3 /\ Cardinality(XRanges(text_blocks, width)) >= 3
                   THEN 2 ELSE 1
    IN  IF columns > 1 THEN 1
        ELSE IF ~has_text THEN 3
        ELSE IF 10 * width > 13 * height THEN 6
        ELSE 4

\* ocr_image.estimate_psm_for_page(page, img)
estimate_psm_for_page(text_len, text_blocks, size) ==
    LET width == size[1]
        height == size[2]
        has_text == text_len > 100
        block_count == Len(text_blocks)
        columns == IF block_count > 3 /\ Cardinality(XRanges(text_blocks, width)) >= 3
                   THEN 2 ELSE 1
    IN  IF ~has_text THEN 3
        ELSE IF columns > 1 THEN 1
        ELSE IF 10 * width > 13 * height THEN 6
        ELSE 4

PsmCalls ==
    [op : {"call"}, fn : {"image_processing_estimate_psm_for_page"}, num_boxes : 0..MaxContours]
    \cup
    [op : {"call"}, fn : {"estimate_psm_for_page"}, text_len : TextLengths,
     text_blocks : UNION {[1..n -> BlockEdges] : n \in 0..MaxBlocks}, size : ImageSizes]

ImageProcessingEstimatePsm ==
    /\ imgOp.op = "call"
    /\ imgOp.fn = "image_processing_estimate_psm_for_page"
    /\ imgOp' = [op |-> "image_processing_estimate_psm_for_page",
                 num_boxes |-> imgOp.num_boxes,
                 ret |-> image_processing_estimate_psm_for_page(imgOp.num_boxes)]

EstimatePsm ==
    /\ imgOp.op = "call"
    /\ imgOp.fn = "estimate_psm_for_page"
    /\ imgOp' = [op |-> "estimate_psm_for_page", text_len |-> imgOp.text_len,
                 text_blocks |-> imgOp.text_blocks, size |-> imgOp.size,
                 ret |-> estimate_psm_for_page(imgOp.text_len, imgOp.text_blocks, imgOp.size)]

(***************************************************************************)
(* Table layer (adapters/ocr/ocr_image.py, adapters/ocr/tables.py).  A     *)
(* table crop is given by the cell contours found in it; a Markdown text   *)
(* is a sequence of lines; a line is literal text or cells joined by a     *)
(* delimiter.                                                              *)
(***************************************************************************)
MaxCells == 4

min_area == 100

\* contours of a crop: bounding box origin and contour area
ContourKinds ==
    [x : {0, 50}, y : {0, 10, 11, 22}, area : {min_area}]
    \cup [x : {0}, y : {0}, area : {min_area - 1}]

Contours == UNION {[1..n -> ContourKinds] : n \in 0..MaxCells}

Abs(n) == IF n < 0 THEN 0 - n ELSE n

\* list.sort(key=lambda c: c[f]): stable, ascending
InsertBy(sorted, e, f) ==
    LET n == Cardinality({i \in DOMAIN sorted : sorted[i][f] <= e[f]})
    IN  SubSeq(sorted, 1, n) \o <<e>> \o SubSeq(sorted, n + 1, Len(sorted))

RECURSIVE SortBy(_, _)
SortBy(seq, f) ==
    IF seq = <<>> THEN <<>>
    ELSE InsertBy(SortBy(SubSeq(seq, 1, Len(seq) - 1), f), seq[Len(seq)], f)

\* variant: a wider row tolerance
IsNewRowWide(y, current_y) == Abs(y - current_y) > 11

\* `abs(y - current_y) > 10`
IsNewRow(y, current_y) == Abs(y - current_y) > 10

\* the row-grouping loop of detect_table_cells
RECURSIVE GroupRows(_, _, _, _, _)
GroupRows(cell_coords, i, rows, current_row, current_y) ==
    IF i > Len(cell_coords)
    THEN IF current_row # <<>> THEN Append(rows, SortBy(current_row, "x")) ELSE rows
    ELSE LET cell == cell_coords[i]
         IN  IF IsNewRow(cell.y, current_y)
             THEN GroupRows(cell_coords, i + 1,
                            IF current_row # <<>>
                            THEN Append(rows, SortBy(current_row, "x")) ELSE rows,
                            <<cell>>, cell.y)
             ELSE GroupRows(cell_coords, i + 1, rows, Append(current_row, cell), current_y)

\* variant: three cells are enough for a grid
TooFewCellsThree(cell_contours) == Len(cell_contours) < 3

\* `len(cell_contours) < 4`
TooFewCells(cell_contours) == Len(cell_contours) < 4

\* the contours that pass `area >= min_area`
CellContours(contours) == SelectSeq(contours, LAMBDA c : c.area >= min_area)

\* detect_table_cells(table_img): dict {(row, col): cell}, {} when the crop
\* is not a grid
detect_table_cells(contours) ==
    LET cell_contours == CellContours(contours)
    IN  IF TooFewCells(cell_contours) THEN <<>>
        ELSE LET cell_coords == SortBy(cell_contours, "y")
                 rows == GroupRows(cell_coords, 1, <<>>, <<>>, cell_coords[1].y)
                 keys == {<<r, c>> \in (0..Len(rows) - 1) \X (0..Len(cell_coords) - 1) :
                             c < Len(rows[r + 1])}
             IN  [k \in keys |-> rows[k[1] + 1][k[2] + 1]]

\* pytesseract.image_to_string(cell_img).strip(): the text of one cell
CellText(cell) == <<"cell", cell.x, cell.y>>

\* the OCR text of the whole crop
CropText == <<"crop">>

\* the code-fence line: three backquotes
Fence == "fence"

Literal(text) == [kind |-> "literal", text |-> text]

\* delimiter.join(cells), with the outer borders tables.py adds
Joined(cells, border) == [kind |-> "joined", cells |-> cells, border |-> border]

\* the cell texts of one grid row, by column index
RowTexts(cells, row) ==
    LET cols == {k[2] : k \in {q \in DOMAIN cells : q[1] = row}}
    IN  [c \in cols |-> CellText(cells[<<row, c>>])]

\* ocr_image.ocr_table_to_markdown(table_img)
ocr_table_to_markdown(contours) ==
    LET cells == detect_table_cells(contours)
    IN  IF DOMAIN cells = {}
        THEN <<Literal(Fence), Literal(CropText), Literal(Fence)>>
        ELSE LET row_ids == {k[1] : k \in DOMAIN cells}
                 max_cols == SetMax({SetMax(DOMAIN RowTexts(cells, r)) + 1 : r \in row_ids})
                 header_row == Joined([i \in 1..max_cols |-> <<"Columna", i>>], FALSE)
                 separator == Joined([i \in 1..max_cols |-> "---"], FALSE)
                 data == [j \in 1..Cardinality(row_ids) |->
                             LET row_data == RowTexts(cells, j - 1)
                             IN  Joined([i \in 1..max_cols |->
                                            IF i - 1 \in DOMAIN row_data
                                            THEN row_data[i - 1] ELSE <<>>], FALSE)]
             IN  <<header_row, separator>> \o data

MaxLines == 3

\* one OCR line of a table crop, split on white space; <<>> is a blank line
LineKinds == {<<>>, <<"a">>, <<"a", "b">>, <<"a", "b", "c">>}

RawTexts == UNION {[1..n -> LineKinds] : n \in 0..MaxLines}

\* the non-blank lines of raw_text
NonBlankLines(raw_text) == SelectSeq(raw_text, LAMBDA l : l # <<>>)

\* row_cells padded or cut to the header length
FitToHeader(row_cells, n) ==
    IF Len(row_cells) < n THEN row_cells \o [i \in 1..(n - Len(row_cells)) |-> <<>>]
    ELSE SubSeq(row_cells, 1, n)

\* tables.ocr_table_to_markdown(img), as a function of the OCR lines
tables_ocr_table_to_markdown(raw_text) ==
    LET lines == NonBlankLines(raw_text)
    IN  IF Len(lines) < 2 THEN <<>>
        ELSE LET header_cells == lines[1]
                 header == Joined(header_cells, TRUE)
                 separator == Joined([i \in 1..Len(header_cells) |-> "---"], TRUE)
                 rows == [j \in 1..(Len(lines) - 1) |->
                             Joined(FitToHeader(lines[j + 1], Len(header_cells)), TRUE)]
             IN  <<header, separator>> \o rows

TableCalls ==
    [op : {"call"}, fn : {"detect_table_cells", "ocr_table_to_markdown"}, contours : Contours]
    \cup
    [op : {"call"}, fn : {"tables_ocr_table_to_markdown"}, raw_text : RawTexts]

DetectTableCells ==
    /\ imgOp.op = "call"
    /\ imgOp.fn = "detect_table_cells"
    /\ imgOp' = [op |-> "detect_table_cells", contours |-> imgOp.contours,
                 ret |-> detect_table_cells(imgOp.contours)]

OcrTableToMarkdown ==
    /\ imgOp.op = "call"
    /\ imgOp.fn = "ocr_table_to_markdown"
    /\ imgOp' = [op |-> "ocr_table_to_markdown", contours |-> imgOp.contours,
                 ret |-> ocr_table_to_markdown(imgOp.contours)]

TablesOcrTableToMarkdown ==
    /\ imgOp.op = "call"
    /\ imgOp.fn = "tables_ocr_table_to_markdown"
    /\ imgOp' = [op |-> "tables_ocr_table_to_markdown", raw_text |-> imgOp.raw_text,
                 ret |-> tables_ocr_table_to_markdown(imgOp.raw_text)]

(***************************************************************************)
(* Table regions and the masked page  (adapters/ocr/ocr_image.py)          *)
(*                                                                         *)
(* detect_table_regions: boundingRect gives one box (x, y, w, h) per       *)
(* external contour of the line mask, inside the image.  The boxes and the *)
(* image size are the inputs here; the morphology that finds them is not   *)
(* modelled.                                                               *)
(***************************************************************************)
MaxBoxes == 2

\* size of the page image of the region calls: (width, height)
PageSize == <<60, 40>>

\* (start, extent) of a box along X and along Y
BoxSpansX == {<<0, 5>>, <<0, 30>>, <<3, 5>>, <<3, 30>>, <<10, 5>>, <<10, 30>>,
              <<30, 5>>, <<30, 30>>}

BoxSpansY == {<<0, 5>>, <<0, 30>>, <<3, 5>>, <<3, 30>>, <<10, 5>>, <<10, 30>>}

\* cv2.boundingRect of the contours: the boxes above and one speck of 1 x 1
Boxes ==
    {[x |-> sx[1], y |-> sy[1], w |-> sx[2], h |-> sy[2]] : sx \in BoxSpansX, sy \in BoxSpansY}
    \cup {[x |-> 20, y |-> 20, w |-> 1, h |-> 1]}

Max(a, b) == IF a >= b THEN a ELSE b

Min(a, b) == IF a <= b THEN a ELSE b

\* w * h >= img_gray.size * 0.005, in thousandths
BigEnough(b, size) == 1000 * b.w * b.h >= 5 * size[1] * size[2]

\* lines 183-186: x and y are moved first, w and h are then cut against the
\* moved x and y
Expand(b, size) ==
    LET x == Max(0, b.x - 10)
        y == Max(0, b.y - 10)
        w == Min(size[1] - x, b.w + 20)
        h == Min(size[2] - y, b.h + 20)
    IN  [x |-> x, y |-> y, w |-> w, h |-> h]

RECURSIVE detect_table_regions(_, _)
detect_table_regions(boxes, size) ==
    IF boxes = <<>> THEN <<>>
    ELSE LET rest == detect_table_regions(Tail(boxes), size)
         IN  IF BigEnough(Head(boxes), size)
             THEN <<Expand(Head(boxes), size)>> \o rest
             ELSE rest

BoxLists == UNION {[1..n -> Boxes] : n \in 0..MaxBoxes}

RegionCalls == [op : {"call"}, fn : {"detect_table_regions"}, boxes : BoxLists]

DetectTableRegions ==
    /\ imgOp.op = "call"
    /\ imgOp.fn = "detect_table_regions"
    /\ imgOp' = [op |-> "detect_table_regions", boxes |-> imgOp.boxes,
                 ret |-> detect_table_regions(imgOp.boxes, PageSize)]

(***************************************************************************)
(* extract_tables_from_page and create_mask_without_tables.  An image is   *)
(* its size and its pixels, px[<<x, y>>]; 0 is black and 255 is white.     *)
(***************************************************************************)
MaxTables == 2

MaskWidth == 3

MaskHeight == 2

White == 255

PixelValues == {0, 128}

Pixels(w, h) == (0..(w - 1)) \X (0..(h - 1))

PageImages ==
    {[w |-> MaskWidth, h |-> MaskHeight, px |-> f] :
        f \in [Pixels(MaskWidth, MaskHeight) -> PixelValues]}

\* the regions detect_table_regions can return for such a page: x, y, w, h
\* inside the image
PageRegions ==
    {r \in [x : 0..(MaskWidth - 1), y : 0..(MaskHeight - 1),
            w : 1..MaskWidth, h : 1..MaskHeight] :
        r.x + r.w <= MaskWidth /\ r.y + r.h <= MaskHeight}

RegionLists == UNION {[1..n -> PageRegions] : n \in 0..MaxTables}

\* img.crop((x, y, x + w, y + h))
Crop(img, r) ==
    [w |-> r.w, h |-> r.h,
     px |-> [p \in Pixels(r.w, r.h) |-> img.px[<<r.x + p[1], r.y + p[2]>>]]]

\* lines 206-212: one crop per region
extract_tables_from_page(img, table_regions) ==
    [i \in 1..Len(table_regions) |-> Crop(img, table_regions[i])]

SetMin(S) == CHOOSE m \in S : \A n \in S : m <= n

\* Image.getbbox(): (left, upper, right, lower) of the non-zero pixels of the
\* image, in the image's own coordinates; None when every pixel is zero
getbbox(im) ==
    LET nz == {p \in DOMAIN im.px : im.px[p] # 0}
    IN  IF nz = {} THEN PyNone
        ELSE [py |-> "tuple",
              left |-> SetMin({p[1] : p \in nz}), upper |-> SetMin({p[2] : p \in nz}),
              right |-> SetMax({p[1] : p \in nz}) + 1,
              lower |-> SetMax({p[2] : p \in nz}) + 1]

\* mask[y:y+h, x:x+w] = 255
Paint(px, x, y, w, h) ==
    [p \in DOMAIN px |->
        IF x <= p[1] /\ p[1] < x + w /\ y <= p[2] /\ p[2] < y + h THEN White ELSE px[p]]

\* lines 229-231: x, y, w, h = table_img.getbbox() for each crop in turn;
\* unpacking None raises TypeError
RECURSIVE PaintAll(_, _)
PaintAll(px, crops) ==
    IF crops = <<>> THEN [raised |-> FALSE, px |-> px]
    ELSE LET box == getbbox(Head(crops))
         IN  IF box = PyNone THEN [raised |-> TRUE, error |-> "TypeError"]
             ELSE PaintAll(Paint(px, box.left, box.upper, box.right, box.lower),
                           Tail(crops))

create_mask_without_tables(img, table_regions) ==
    LET painted == PaintAll(img.px, table_regions)
    IN  IF painted.raised THEN painted
        ELSE [raised |-> FALSE, ret |-> [w |-> img.w, h |-> img.h, px |-> painted.px]]

MaskCalls == [op : {"call"}, fn : {"create_mask_without_tables"},
              img : PageImages, regions : RegionLists]

\* ocr_engine.py lines 94-103: tables = extract_tables_from_page(img), then
\* create_mask_without_tables(img, tables)
CreateMaskWithoutTables ==
    /\ imgOp.op = "call"
    /\ imgOp.fn = "create_mask_without_tables"
    /\ LET tables == extract_tables_from_page(imgOp.img, imgOp.regions)
       IN  imgOp' = [op |-> "create_mask_without_tables", img |-> imgOp.img,
                     regions |-> imgOp.regions, tables |-> tables,
                     out |-> create_mask_without_tables(imgOp.img, tables)]

(***************************************************************************)
(* LLMRefiner  (adapters/llm_services.py and adapters/llm_refiner.py)      *)
(* A text is a sequence of characters.                                     *)
(***************************************************************************)
MaxTextLen == 4

MaxRaise == 4

Alphabet == {"a", "0", "O", " ", "\n"}

Whitespace == {" ", "\n"}

RefinerTexts == UNION {[1..n -> Alphabet] : n \in 0..MaxTextLen}

ChunkSizes == {1, 2, 4000}

DefaultChunkSize == 4000

max_retries == 3

\* OCR_PATTERNS, in dict order: character class -> replacement
OCR_PATTERNS ==
    << <<{"0", "O", "o"}, "O">>,
       <<{"1", "I", "l"}, "l">>,
       <<{"5", "S", "s"}, "S">>,
       <<{"8", "B", "b"}, "B">>,
       <<{"2", "Z", "z"}, "Z">> >>

\* re.sub(r"[...]", replacement, text)
ReSubClass(cls, repl, text) ==
    [i \in 1..Len(text) |-> IF text[i] \in cls THEN repl ELSE text[i]]

RECURSIVE ApplyPatterns(_, _)
ApplyPatterns(pats, text) ==
    IF pats = <<>> THEN text
    ELSE ApplyPatterns(Tail(pats), ReSubClass(pats[1][1], pats[1][2], text))

\* _correct_ocr_errors(text)
_correct_ocr_errors(text) == ApplyPatterns(OCR_PATTERNS, text)

\* str.strip()
RECURSIVE LStrip(_)
LStrip(t) == IF t # <<>> /\ Head(t) \in Whitespace THEN LStrip(Tail(t)) ELSE t

RECURSIVE RStrip(_)
RStrip(t) ==
    IF t # <<>> /\ t[Len(t)] \in Whitespace THEN RStrip(SubSeq(t, 1, Len(t) - 1)) ELSE t

Strip(t) == RStrip(LStrip(t))

\* end of the match of \n\s*\n that starts at position i, 0 when none: the
\* last newline of the whitespace run that follows text[i]
MatchEnd(t, i) ==
    IF t[i] # "\n" THEN 0
    ELSE LET run == {j \in (i + 1)..Len(t) : \A x \in (i + 1)..j : t[x] \in Whitespace}
             ends == {j \in run : t[j] = "\n"}
         IN  IF ends = {} THEN 0 ELSE SetMax(ends)

\* re.split(r'\n\s*\n', text)
RECURSIVE SplitFrom(_, _, _)
SplitFrom(t, i, start) ==
    IF i > Len(t) THEN <<SubSeq(t, start, Len(t))>>
    ELSE LET e == MatchEnd(t, i)
         IN  IF e > 0 THEN <<SubSeq(t, start, i - 1)>> \o SplitFrom(t, e + 1, e + 1)
             ELSE SplitFrom(t, i + 1, start)

SplitParagraphs(t) == SplitFrom(t, 1, 1)

\* "\n\n".join(parts)
RECURSIVE JoinParagraphs(_)
JoinParagraphs(parts) ==
    IF parts = <<>> THEN <<>>
    ELSE IF Len(parts) = 1 THEN parts[1]
    ELSE parts[1] \o <<"\n", "\n">> \o JoinParagraphs(Tail(parts))

\* behaviour of provider.generate_completion during one _refine_chunk or
\* _safe_generate: the first raiseFirst calls raise, the next one replies
Providers ==
    [raiseFirst : {0, 1, MaxRaise}, reply : {"none", "blank", "echo", "fixed"}]

\* the reply is None, whitespace, the prompt itself, or a new text
ProviderReply(p, prompt) ==
    CASE p.reply = "none" -> [py |-> "None"]
      [] p.reply = "blank" -> [py |-> "str", s |-> <<" ">>]
      [] p.reply = "echo" -> [py |-> "str", s |-> prompt]
      [] OTHER -> [py |-> "str", s |-> <<"a", "\n">>]

\* the while loop of _refine_chunk, entered with `retries` failures so far
RECURSIVE RefineLoop(_, _, _)
RefineLoop(p, text, retries) ==
    IF retries <= max_retries
    THEN IF retries < p.raiseFirst
         THEN IF retries + 1 <= max_retries
              THEN RefineLoop(p, text, retries + 1)
              ELSE [ret |-> text, calls |-> retries + 1]
         ELSE LET response == ProviderReply(p, text)
              IN  IF response.py = "str" /\ response.s # <<>> /\ Strip(response.s) # <<>>
                  THEN [ret |-> Strip(response.s), calls |-> retries + 1]
                  ELSE [ret |-> text, calls |-> retries + 1]
    ELSE [ret |-> text, calls |-> retries]

\* LLMRefiner._refine_chunk(text)
_refine_chunk(p, text) ==
    IF Strip(text) = <<>> THEN [ret |-> text, calls |-> 0]
    ELSE RefineLoop(p, text, 0)

\* the paragraph loop of _process_large_text; st = chunks refined so far,
\* paragraphs of the current chunk and their total size, fragments sent
RECURSIVE LargeLoop(_, _, _, _)
LargeLoop(p, paras, chunk_size, st) ==
    IF paras = <<>>
    THEN IF st.current_chunk # <<>>
         THEN [chunks |-> Append(st.chunks,
                                _refine_chunk(p, JoinParagraphs(st.current_chunk)).ret),
               sent |-> Append(st.sent, JoinParagraphs(st.current_chunk))]
         ELSE [chunks |-> st.chunks, sent |-> st.sent]
    ELSE LET para == Head(paras)
             para_size == Len(para)
         IN  IF st.current_size + para_size > chunk_size
             THEN IF st.current_chunk # <<>>
                  THEN LargeLoop(p, Tail(paras), chunk_size,
                         [chunks |-> Append(st.chunks,
                                       _refine_chunk(p, JoinParagraphs(st.current_chunk)).ret),
                          sent |-> Append(st.sent, JoinParagraphs(st.current_chunk)),
                          current_chunk |-> <<para>>,
                          current_size |-> para_size])
                  ELSE LargeLoop(p, Tail(paras), chunk_size,
                         [st EXCEPT !.chunks = Append(st.chunks, _refine_chunk(p, para).ret),
                                    !.sent = Append(st.sent, para)])
             ELSE LargeLoop(p, Tail(paras), chunk_size,
                    [st EXCEPT !.current_chunk = Append(st.current_chunk, para),
                               !.current_size = st.current_size + para_size])

\* variant: the fragment still open after the last paragraph is not processed
_process_large_text_no_last(p, text, chunk_size) ==
    LET r == LargeLoop(p, SplitParagraphs(text), chunk_size,
                       [chunks |-> <<>>, sent |-> <<>>,
                        current_chunk |-> <<>>, current_size |-> 0])
    IN  [ret |-> JoinParagraphs(SubSeq(r.chunks, 1, Len(r.chunks) - 1)),
         sent |-> SubSeq(r.sent, 1, Len(r.sent) - 1)]

\* LLMRefiner._process_large_text(text, chunk_size)
_process_large_text(p, text, chunk_size) ==
    LET r == LargeLoop(p, SplitParagraphs(text), chunk_size,
                       [chunks |-> <<>>, sent |-> <<>>,
                        current_chunk |-> <<>>, current_size |-> 0])
    IN  [ret |-> JoinParagraphs(r.chunks), sent |-> r.sent]

\* llm_services.LLMRefiner.refine(text, max_chunk_size)
refine(hasProvider, p, text, max_chunk_size) ==
    IF ~hasProvider \/ text = <<>>
    THEN [ret |-> text, sent |-> <<>>]
    ELSE LET corrected == _correct_ocr_errors(text)
         IN  IF Len(corrected) > max_chunk_size
             THEN _process_large_text(p, corrected, max_chunk_size)
             ELSE [ret |-> _refine_chunk(p, corrected).ret, sent |-> <<corrected>>]

\* llm_refiner.LLMRefiner._safe_generate(prompt, system_prompt)
_safe_generate(p, prompt) ==
    IF p.raiseFirst > 0 THEN [py |-> "str", s |-> prompt] ELSE ProviderReply(p, prompt)

\* `x or raw` for a str-or-None x
OrElse(x, raw) == IF x.py = "str" /\ x.s # <<>> THEN x.s ELSE raw

\* llm_refiner.LLMRefiner.prompt_refine(raw)
prompt_refine(hasProvider, p, raw) ==
    IF ~hasProvider THEN raw
    ELSE OrElse(_safe_generate(p, _correct_ocr_errors(raw)), raw)

\* llm_refiner.LLMRefiner.refine_markdown(raw_text)
refine_markdown(hasProvider, p, raw_text) ==
    IF ~hasProvider THEN raw_text
    ELSE OrElse(_safe_generate(p, raw_text), raw_text)

\* the calls a client may make: operation and arguments
RefinerCalls ==
    [op : {"call"}, fn : {"refine"}, text : RefinerTexts, hasProvider : BOOLEAN,
     provider : Providers, max_chunk_size : ChunkSizes]
    \cup
    [op : {"call"}, fn : {"prompt_refine", "refine_markdown"}, text : RefinerTexts,
     hasProvider : BOOLEAN, provider : Providers, max_chunk_size : {DefaultChunkSize}]
    \cup
    [op : {"call"}, fn : {"_refine_chunk"}, text : RefinerTexts,
     hasProvider : {TRUE}, provider : Providers, max_chunk_size : {DefaultChunkSize}]

\* LLMRefiner._refine_chunk(text) called on its own; calls counts the calls of
\* provider.generate_completion
RefineChunk ==
    /\ refOp.op = "call"
    /\ refOp.fn = "_refine_chunk"
    /\ LET r == _refine_chunk(refOp.provider, refOp.text)
       IN  refOp' = [op |-> "_refine_chunk", text |-> refOp.text,
                     hasProvider |-> refOp.hasProvider, provider |-> refOp.provider,
                     ret |-> r.ret, calls |-> r.calls]

Refine ==
    /\ refOp.op = "call"
    /\ refOp.fn = "refine"
    /\ LET r == refine(refOp.hasProvider, refOp.provider, refOp.text, refOp.max_chunk_size)
       IN  refOp' = [op |-> "refine", text |-> refOp.text, hasProvider |-> refOp.hasProvider,
                     provider |-> refOp.provider, max_chunk_size |-> refOp.max_chunk_size,
                     ret |-> r.ret, sent |-> r.sent]

PromptRefine ==
    /\ refOp.op = "call"
    /\ refOp.fn = "prompt_refine"
    /\ refOp' = [op |-> "prompt_refine", text |-> refOp.text,
                 hasProvider |-> refOp.hasProvider, provider |-> refOp.provider,
                 ret |-> prompt_refine(refOp.hasProvider, refOp.provider, refOp.text)]

RefineMarkdown ==
    /\ refOp.op = "call"
    /\ refOp.fn = "refine_markdown"
    /\ refOp' = [op |-> "refine_markdown", text |-> refOp.text,
                 hasProvider |-> refOp.hasProvider, provider |-> refOp.provider,
                 ret |-> refine_markdown(refOp.hasProvider, refOp.provider, refOp.text)]

(***************************************************************************)
(* Text post-processing  (adapters/ocr/text_processing.py) and the result  *)
(* of a page with tables  (adapters/ocr/ocr_engine.py lines 107-126).      *)
(* A text is a sequence of characters.                                     *)
(***************************************************************************)
Digits == {"1", "2"}

Letters ==
    {"a", "l", "m", "n", "o", "u",
     "A", "C", "D", "E", "F", "I", "M", "N", "O", "P", "R", "S", "T", "U", "V"}

\* the characters the class of line 35 keeps, among those of the texts here
KeptChars == Letters \cup Digits \cup Whitespace \cup {".", ",", ";", ":", "%", "-", "(", ")", "/"}

\* number of consecutive characters of cls in t from position i on
RECURSIVE RunLen(_, _, _)
RunLen(t, i, cls) ==
    IF i <= Len(t) /\ t[i] \in cls THEN 1 + RunLen(t, i + 1, cls) ELSE 0

\* re.sub(r"\s{2,}", " ", text)
RECURSIVE CollapseSpaces(_)
CollapseSpaces(t) ==
    IF t = <<>> THEN <<>>
    ELSE LET n == RunLen(t, 1, Whitespace)
         IN  IF n >= 2 THEN <<" ">> \o CollapseSpaces(SubSeq(t, n + 1, Len(t)))
             ELSE <<Head(t)>> \o CollapseSpaces(Tail(t))

\* the characters of the texts here
TextChars == KeptChars \cup {"|"}

\* str.splitlines()
RECURSIVE SplitLines(_)
SplitLines(t) ==
    IF t = <<>> THEN <<>>
    ELSE LET n == RunLen(t, 1, TextChars \ {"\n"})
         IN  IF n = Len(t) THEN <<t>>
             ELSE <<SubSeq(t, 1, n)>> \o SplitLines(SubSeq(t, n + 2, Len(t)))

\* "\n".join(lines)
RECURSIVE JoinLines(_)
JoinLines(lines) ==
    IF lines = <<>> THEN <<>>
    ELSE IF Len(lines) = 1 THEN lines[1]
    ELSE lines[1] \o <<"\n">> \o JoinLines(Tail(lines))

\* letters / max(len(line), 1) >= 0.3
EnoughLetters(line) ==
    10 * Cardinality({i \in 1..Len(line) : line[i] \in Letters})
        >= 3 * (IF Len(line) >= 1 THEN Len(line) ELSE 1)

\* cleanup_text(text); NFKC leaves the characters of these texts as they are
cleanup_text(text) ==
    LET replaced == [i \in 1..Len(text) |-> IF text[i] \in KeptChars THEN text[i] ELSE " "]
        collapsed == CollapseSpaces(replaced)
        kept == SelectSeq(SplitLines(collapsed), EnoughLetters)
    IN  JoinLines([i \in 1..Len(kept) |-> Strip(kept[i])])

\* one line of detect_lists
ListLine(raw) ==
    LET line == Strip(raw)
        p == IF line # <<>> /\ line[1] = "(" THEN 1 ELSE 0
        d == RunLen(line, p + 1, Digits)
    IN  IF d >= 1 /\ p + d + 1 <= Len(line) /\ line[p + d + 1] \in {".", ")", "-"}
        THEN SubSeq(line, p + 1, p + d) \o <<".", " ">>
                 \o LStrip(SubSeq(line, p + d + 2, Len(line)))
        ELSE IF line # <<>> /\ line[1] = "-"
        THEN <<"-", " ">> \o LStrip(Tail(line))
        ELSE line

\* detect_lists(text)
detect_lists(text) ==
    LET lines == SplitLines(text)
    IN  JoinLines([i \in 1..Len(lines) |-> ListLine(lines[i])])

\* apply_manual_corrections(text): data/corrections.csv is not part of the
\* repository, CORRECTIONS_PATH.exists() is false and the text is returned
apply_manual_corrections(text) == text

headings ==
    << <<"V", "I", "S", "T", "O", "S">>,
       <<"C", "O", "N", "S", "I", "D", "E", "R", "A", "N", "D", "O">>,
       <<"R", "E", "S", "U", "E", "L", "V", "O">>,
       <<"D", "E", "C", "R", "E", "T", "O">>,
       <<"F", "U", "N", "D", "A", "M", "E", "N", "T", "O">>,
       <<"T", "E", "N", "I", "E", "N", "D", "O", " ", "P", "R", "E", "S", "E", "N", "T", "E">>,
       <<"P", "O", "R", " ", "T", "A", "N", "T", "O">> >>

\* the word w stands in t at position i
MatchAt(t, i, w) == i + Len(w) - 1 <= Len(t) /\ SubSeq(t, i, i + Len(w) - 1) = w

\* re.sub(rf"(?m)^\s*{heading}[:\s]*", f"\n### {heading}\n", text) from
\* position i on
RECURSIVE SubHeading(_, _, _)
SubHeading(t, heading, i) ==
    IF i > Len(t) THEN <<>>
    ELSE LET start == i + RunLen(t, i, Whitespace)
             after == start + Len(heading)
         IN  IF (i = 1 \/ t[i - 1] = "\n") /\ MatchAt(t, start, heading)
             THEN <<"\n", "#", "#", "#", " ">> \o heading \o <<"\n">>
                      \o SubHeading(t, heading, after + RunLen(t, after, Whitespace \cup {":"}))
             ELSE <<t[i]>> \o SubHeading(t, heading, i + 1)

RECURSIVE ApplyHeadings(_, _)
ApplyHeadings(hs, text) ==
    IF hs = <<>> THEN text
    ELSE ApplyHeadings(Tail(hs), SubHeading(text, Head(hs), 1))

\* detect_structured_headings(text)
detect_structured_headings(text) == ApplyHeadings(headings, text)

\* data/corrections.csv as csv.DictReader sees it: the first line gives the
\* field names, each later line one row
NoFile == [exists |-> FALSE]

CorrectionFiles ==
    {NoFile,
     [exists |-> TRUE, fieldnames |-> <<>>, rows |-> <<>>],
     [exists |-> TRUE, fieldnames |-> <<"ocr", "correct">>, rows |-> <<>>],
     [exists |-> TRUE, fieldnames |-> <<"x", "y">>, rows |-> << <<<<"a">>, <<"a", "a">>>> >>],
     [exists |-> TRUE, fieldnames |-> <<"ocr", "correct">>, rows |-> << <<<<"a">>>> >>],
     [exists |-> TRUE, fieldnames |-> <<"ocr", "correct">>,
      rows |-> << <<<<"a">>, <<"a", "a">>>> >>]}

\* the dict of one row: a field the line has no value for is None
RowDict(fieldnames, row) ==
    [f \in {fieldnames[i] : i \in 1..Len(fieldnames)} |->
        LET i == CHOOSE j \in 1..Len(fieldnames) : fieldnames[j] = f
        IN  IF i <= Len(row) THEN [py |-> "str", val |-> row[i]] ELSE PyNone]

WordChars == Letters \cup Digits \cup {"_"}

\* \b between positions i - 1 and i of t
IsBoundary(t, i) ==
    (i > 1 /\ t[i - 1] \in WordChars) # (i <= Len(t) /\ t[i] \in WordChars)

\* re.sub(rf"\b{re.escape(bad)}\b", good, text, flags=re.IGNORECASE) from
\* position i on; the texts here have no upper-case letter
RECURSIVE ReplaceWord(_, _, _, _)
ReplaceWord(t, bad, good, i) ==
    IF i > Len(t) THEN <<>>
    ELSE IF MatchAt(t, i, bad) /\ IsBoundary(t, i) /\ IsBoundary(t, i + Len(bad))
    THEN good \o ReplaceWord(t, bad, good, i + Len(bad))
    ELSE <<t[i]>> \o ReplaceWord(t, bad, good, i + 1)

\* lines 132-136: row["ocr"] and row["correct"] raise KeyError for a missing
\* column; re.escape(None) and a None replacement raise TypeError
RECURSIVE CorrectRows(_, _, _)
CorrectRows(fieldnames, rows, text) ==
    IF rows = <<>> THEN [raised |-> FALSE, ret |-> text]
    ELSE LET row == RowDict(fieldnames, Head(rows))
         IN  IF "ocr" \notin DOMAIN row \/ "correct" \notin DOMAIN row
             THEN [raised |-> TRUE, error |-> "KeyError"]
             ELSE IF row["ocr"] = PyNone \/ row["correct"] = PyNone
             THEN [raised |-> TRUE, error |-> "TypeError"]
             ELSE CorrectRows(fieldnames, Tail(rows),
                              ReplaceWord(text, row["ocr"].val, row["correct"].val, 1))

\* apply_manual_corrections(text) with the file in the given state
apply_manual_corrections_with(file, text) ==
    IF ~file.exists THEN [raised |-> FALSE, ret |-> text]
    ELSE CorrectRows(file.fieldnames, file.rows, text)

StageNames == {"cleanup_text", "detect_lists", "detect_structured_headings"}

\* one stage of the post-processor on a text
StageRun(stage, file, text) ==
    CASE stage = "cleanup_text" -> [raised |-> FALSE, ret |-> cleanup_text(text)]
      [] stage = "detect_lists" -> [raised |-> FALSE, ret |-> detect_lists(text)]
      [] stage = "detect_structured_headings" ->
             [raised |-> FALSE, ret |-> detect_structured_headings(text)]
      [] stage = "apply_manual_corrections" -> apply_manual_corrections_with(file, text)

\* ocr_engine.py lines 119-126
postprocess(result) ==
    detect_structured_headings(detect_lists(apply_manual_corrections(cleanup_text(result))))

\* ocr_engine.py line 107 and lines 119-126: result = f"{text}\n\n{table_md}",
\* then the four stages on result
result_with_tables(text, table_md) == postprocess(text \o <<"\n", "\n">> \o table_md)

\* OCR text of the masked page
ProseTexts ==
    {<<>>, <<"a", " ", "a", "\n">>, <<"a", "\n", "1", ")", " ", "a", "\n">>, <<"V", "I", "S", "T", "O", "S", ":", " ", "a", "\n">>, <<"-", " ", "a", "\n", "a", " ", "|", " ", "a", "\n">>}

\* what ocr_image.ocr_table_to_markdown returns for a grid of two columns and
\* two rows, and for one column of four rows
TableMarkdowns ==
    {<<"C", "o", "l", "u", "m", "n", "a", " ", "1", " ", "|", " ", "C", "o", "l", "u", "m", "n", "a", " ", "2", "\n", "-", "-", "-", " ", "|", " ", "-", "-", "-", "\n", "a", " ", "|", " ", "a", "\n", "a", " ", "|", " ", "a">>,
     <<"C", "o", "l", "u", "m", "n", "a", " ", "1", "\n", "-", "-", "-", "\n", "a", "\n", "a", "\n", "a", "\n", "a">>}

TextCalls == [op : {"call"}, fn : {"result_with_tables"}, text : ProseTexts,
              table_md : TableMarkdowns]

ResultWithTables ==
    /\ imgOp.op = "call"
    /\ imgOp.fn = "result_with_tables"
    /\ imgOp' = [op |-> "result_with_tables", text |-> imgOp.text,
                 table_md |-> imgOp.table_md,
                 ret |-> result_with_tables(imgOp.text, imgOp.table_md)]

\* texts of the post-processor calls: at most MaxChars characters
MaxChars == 3

PostChars == {"a", "1", ")", "-", " ", "\n"}

PostTexts == UNION {[1..n -> PostChars] : n \in 0..MaxChars}

PostCalls == [op : {"call"}, fn : {"postprocess"}, text : PostTexts]

StageCalls ==
    [op : {"call"}, fn : {"stage"}, stage : StageNames, file : {NoFile}, text : PostTexts]
    \cup
    [op : {"call"}, fn : {"stage"}, stage : {"apply_manual_corrections"},
     file : CorrectionFiles, text : PostTexts]

\* one stage called on its own
Stage ==
    /\ imgOp.op = "call"
    /\ imgOp.fn = "stage"
    /\ imgOp' = [op |-> "stage", stage |-> imgOp.stage, file |-> imgOp.file,
                 text |-> imgOp.text,
                 out |-> StageRun(imgOp.stage, imgOp.file, imgOp.text)]

\* the four stages on an OCR text (ocr_engine.py lines 119-126)
Postprocess ==
    /\ imgOp.op = "call"
    /\ imgOp.fn = "postprocess"
    /\ imgOp' = [op |-> "postprocess", runs |-> 1, text |-> imgOp.text,
                 ret |-> postprocess(imgOp.text)]

\* the four stages again, on the text they returned
PostprocessAgain ==
    /\ imgOp.op = "postprocess"
    /\ imgOp.runs = 1
    /\ imgOp' = [op |-> "postprocess", runs |-> 2, text |-> imgOp.ret,
                 ret |-> postprocess(imgOp.ret)]

(***************************************************************************)
(* Per-page OCR pipeline  (adapters/ocr/ocr_engine.py, adapters/ocr/engine.py) *)
(* A run is the sequence of steps the handler executes on a page; the      *)
(* environment says which external call fails, what the table detector     *)
(* sees and how the refiner is configured.                                 *)
(***************************************************************************)
PipelineSteps ==
    {"import_names", "render", "rotation", "preprocess", "psm", "has_visual_table", "extract_tables",
     "table_md", "mask", "ocr", "re_sub", "postprocess", "detect_tables",
     "is_enabled", "refine", "headings"}

PageEnvs ==
    [failAt : PipelineSteps \cup {"none"},
     table : {"no", "undetected", "found"},
     ocr_blank : BOOLEAN,
     llm : {"off", "on"}]

\* names bound at module level in adapters/ocr/engine.py
EngineModuleNames ==
    {"logging", "BytesIO", "cv2", "fitz", "np", "pytesseract", "Image", "state",
     "LLMRefiner", "DPI", "build_tesseract_config", "correct_rotation",
     "estimate_psm_for_page", "detect_table_regions", "ocr_table_to_markdown",
     "apply_manual_corrections", "cleanup_text", "detect_lists",
     "detect_structured_headings", "segment_text_blocks", "llm_refiner",
     "perform_ocr_on_page"}

\* names bound at module level in adapters/ocr/ocr_text.py
OcrTextNames ==
    {"logging", "re", "os", "csv", "Dict", "List", "Tuple", "logger",
     "CORRECTIONS_PATH", "LEGAL_PATTERNS_PATH", "LEGAL_WORDS_PATH",
     "load_corrections", "load_legal_patterns", "load_legal_words",
     "apply_corrections", "fix_line_breaks", "apply_legal_corrections",
     "corrections_dict", "legal_patterns", "legal_words",
     "clean_and_format_text", "detect_language", "split_into_sections"}

\* `from .ocr_text import ...` in the body of ocr_engine.perform_ocr_on_page
OcrTextImports ==
    {"cleanup_text", "apply_manual_corrections", "detect_lists",
     "detect_structured_headings"}

\* methods of llm_services.LLMRefiner
LLMServicesRefinerMethods ==
    {"__init__", "_get_provider", "is_enabled", "refine", "_process_large_text",
     "_refine_chunk"}

\* the step raises: the environment makes it fail, or it uses a name that
\* is not bound
StepRaises(step, env, version) ==
    \/ env.failAt = step
    \/ version = "engine" /\ step = "re_sub" /\ "re" \notin EngineModuleNames
    \/ version = "ocr_engine" /\ step = "import_names"
          /\ ~(OcrTextImports \subseteq OcrTextNames)
    \/ version = "ocr_engine" /\ step = "refine"
          /\ "refine_ocr_text" \notin LLMServicesRefinerMethods

\* steps executed by ocr_engine.perform_ocr_on_page, in order
PathOcrEngine(env) ==
    <<"import_names", "render", "rotation", "psm", "has_visual_table">>
    \o (CASE env.table = "found" -> <<"extract_tables", "table_md", "mask", "ocr">>
          [] env.table = "undetected" -> <<"extract_tables", "ocr">>
          [] OTHER -> <<"ocr">>)
    \o <<"postprocess", "is_enabled">>
    \o (IF env.llm = "on" THEN <<"refine">> ELSE <<>>)

\* steps executed by engine.perform_ocr_on_page, in order
PathEngine(env) ==
    <<"render", "rotation", "preprocess", "psm", "ocr", "re_sub", "postprocess",
      "detect_tables">>
    \o (IF env.table = "found" THEN <<"table_md">> ELSE <<>>)
    \o (IF env.llm = "on" THEN <<"refine">> ELSE <<>>)
    \o <<"headings">>

\* steps whose exceptions are caught: correct_rotation catches its own, and
\* the refinement call sits in a try/except
GuardedSteps(version) == {"rotation", "refine"}

\* first step of the path that raises out of the handler, 0 when none
FirstEscaping(path, env, version) ==
    LET bad == {i \in DOMAIN path :
                   StepRaises(path[i], env, version) /\ path[i] \notin GuardedSteps(version)}
    IN  IF bad = {} THEN 0 ELSE CHOOSE i \in bad : \A j \in bad : i <= j

\* the refinement step ran and raised (and was caught)
RefineRaised(path, env, version) ==
    \E i \in DOMAIN path :
        /\ path[i] = "refine"
        /\ StepRaises("refine", env, version)
        /\ FirstEscaping(path, env, version) \in {0} \cup {j \in DOMAIN path : j > i}

PageRun(id, env, version) ==
    LET path == IF version = "engine" THEN PathEngine(env) ELSE PathOcrEngine(env)
        esc == FirstEscaping(path, env, version)
        caught == RefineRaised(path, env, version)
    IN  IF esc > 0
        THEN [raised |-> TRUE, at |-> path[esc], refineRaised |-> caught]
        ELSE [raised |-> FALSE, at |-> "none", refineRaised |-> caught,
              ret |-> [src |-> "ocr", page |-> id, blank |-> env.ocr_blank,
                       tables |-> env.table = "found",
                       masked |-> version = "ocr_engine" /\ env.table = "found",
                       rotated |-> ~StepRaises("rotation", env, version),
                       stripped |-> FALSE,
                       refined |-> env.llm = "on" /\ ~caught]]

\* ocr_engine.perform_ocr_on_page(page), and extract_text_from_pdf which
\* returns its result
perform_ocr_on_page(id, env) == PageRun(id, env, "ocr_engine")

\* engine.perform_ocr_on_page(page)
engine_perform_ocr_on_page(id, env) == PageRun(id, env, "engine")

PageCalls == [op : {"call"}, fn : {"ocr_engine", "engine"}, env : PageEnvs]

PerformOcrOnPage ==
    /\ docOp.op = "call"
    /\ docOp.fn = "ocr_engine"
    /\ docOp' = [op |-> "perform_ocr_on_page", version |-> "ocr_engine", env |-> docOp.env,
                 out |-> perform_ocr_on_page(1, docOp.env)]

EnginePerformOcrOnPage ==
    /\ docOp.op = "call"
    /\ docOp.fn = "engine"
    /\ docOp' = [op |-> "perform_ocr_on_page", version |-> "engine", env |-> docOp.env,
                 out |-> engine_perform_ocr_on_page(1, docOp.env)]

(***************************************************************************)
(* Document level  (adapters/ocr/ocr_engine.py process_pdf_file,           *)
(* adapters/document_processing.py, adapters/pymupdf_adapter.py,           *)
(* infrastructure/document_adapter.py, application/use_cases)              *)
(***************************************************************************)
MaxPages == 2

OcrThreshold == 10

EngineOcrThreshold == 50

ParallelSizeLimit == 5 * 1024 * 1024

\* the text PyMuPDF extracts from a page: n characters, optionally
\* surrounded by white space
Chars(n, ws) ==
    (IF ws THEN <<" ">> ELSE <<>>) \o [i \in 1..n |-> "x"] \o (IF ws THEN <<"\n">> ELSE <<>>)

DirectTexts ==
    {Chars(0, TRUE), Chars(9, FALSE), Chars(10, TRUE), Chars(49, FALSE), Chars(50, FALSE)}

NoFailure == [failAt |-> "none", table |-> "no", ocr_blank |-> FALSE, llm |-> "off"]

DocPageEnvs ==
    {NoFailure,
     [NoFailure EXCEPT !.failAt = "ocr"],
     [NoFailure EXCEPT !.ocr_blank = TRUE]}

PageKinds == [text : DirectTexts, env : DocPageEnvs]

Docs == UNION {[1..n -> PageKinds] : n \in 1..MaxPages}

Files ==
    [exists : {FALSE}, openable : {FALSE}, st_size : {ParallelSizeLimit}, doc : {<<>>}]
    \cup
    [exists : {TRUE}, openable : {FALSE},
     st_size : {ParallelSizeLimit, ParallelSizeLimit + 1}, doc : {<<>>}]
    \cup
    [exists : {TRUE}, openable : {TRUE},
     st_size : {ParallelSizeLimit, ParallelSizeLimit + 1}, doc : Docs]

\* document_processing.needs_ocr(page, threshold=10)
needs_ocr(page, threshold) == Len(Strip(page.text)) < threshold

\* ocr_engine.needs_ocr(page)
engine_needs_ocr(page) == Len(Strip(page.text)) < EngineOcrThreshold

DirectText(i, s) == [src |-> "direct", page |-> i, s |-> s, blank |-> Strip(s) = <<>>]

ErrorStr(msg) == [py |-> "str", kind |-> "error", msg |-> msg]

ContentStr(pages, refined) ==
    [py |-> "str", kind |-> "content", pages |-> pages, refined |-> refined]

\* the text llm_port.format_markdown returns for a raw Markdown text
Formatted(raw) == [py |-> "str", kind |-> "formatted", of |-> raw]

\* `not s or s.strip() == ""` for a returned string
IsBlank(str) ==
    /\ str.kind = "content"
    /\ \A i \in DOMAIN str.pages : str.pages[i].blank

\* the page loop of process_pdf_file from page i on
RECURSIVE ProcessPages(_, _, _, _)
ProcessPages(doc, i, texts, ocr) ==
    IF i > Len(doc) THEN [raised |-> FALSE, failed |-> 0, texts |-> texts, ocr |-> ocr]
    ELSE IF engine_needs_ocr(doc[i])
         THEN LET r == perform_ocr_on_page(i, doc[i].env)
              IN  IF r.raised
                  THEN [raised |-> TRUE, failed |-> i, texts |-> texts, ocr |-> ocr \cup {i}]
                  ELSE ProcessPages(doc, i + 1, Append(texts, r.ret), ocr \cup {i})
         ELSE ProcessPages(doc, i + 1, Append(texts, DirectText(i, doc[i].text)), ocr)

\* ocr_engine.process_pdf_file(pdf_path): one try/except around the open
\* call and the page loop
process_pdf_file(file) ==
    IF ~(file.exists /\ file.openable)
    THEN [ret |-> [py |-> "dict", kind |-> "error"], raised |-> FALSE, opened |-> FALSE,
          failed |-> 0, ocr |-> {}]
    ELSE LET r == ProcessPages(file.doc, 1, <<>>, {})
         IN  [ret |-> IF r.raised THEN [py |-> "dict", kind |-> "error"]
                      ELSE [py |-> "dict", kind |-> "pages", pages |-> r.texts],
              raised |-> FALSE, opened |-> TRUE, failed |-> r.failed, ocr |-> r.ocr]

\* document_processing.perform_ocr_on_page: the module-level name that line
\* 38 binds to extract_text_from_pdf, a name the module itself does not
\* define. The callable is taken by its signature (page) -> str: it returns
\* the OCR text of the page or raises.
document_processing_perform_ocr_on_page(id, env) ==
    IF env.failAt # "none"
    THEN [raised |-> TRUE, at |-> env.failAt, refineRaised |-> FALSE]
    ELSE [raised |-> FALSE, at |-> "none", refineRaised |-> FALSE,
          ret |-> [src |-> "ocr", page |-> id, blank |-> env.ocr_blank,
                   tables |-> env.table = "found", masked |-> env.table = "found",
                   rotated |-> TRUE, stripped |-> FALSE, refined |-> FALSE]]

\* run_parallel_ocr(pdf_path) as its caller sees it: executor.map applies
\* _ocr_single to every page index and yields the results in index order;
\* the first exception in that order is re-raised
RECURSIVE MapOcrSingle(_, _, _)
MapOcrSingle(doc, i, texts) ==
    IF i > Len(doc) THEN [raised |-> FALSE, failed |-> 0, texts |-> texts]
    ELSE LET r == document_processing_perform_ocr_on_page(i, doc[i].env)
         IN  IF r.raised THEN [raised |-> TRUE, failed |-> i, texts |-> texts]
             ELSE MapOcrSingle(doc, i + 1, Append(texts, r.ret))

run_parallel_ocr(file) ==
    IF ~(file.exists /\ file.openable)
    THEN [raised |-> TRUE, failed |-> 0, texts |-> <<>>, opened |-> FALSE, ocr |-> {}]
    ELSE LET r == MapOcrSingle(file.doc, 1, <<>>)
         IN  [raised |-> r.raised, failed |-> r.failed, texts |-> r.texts,
              opened |-> TRUE, ocr |-> DOMAIN file.doc]

\* the sequential page loop of document_processing.extract_markdown
RECURSIVE SequentialPages(_, _, _, _)
SequentialPages(doc, i, texts, ocr) ==
    IF i > Len(doc) THEN [raised |-> FALSE, failed |-> 0, texts |-> texts, ocr |-> ocr]
    ELSE IF needs_ocr(doc[i], OcrThreshold)
         THEN LET r == document_processing_perform_ocr_on_page(i, doc[i].env)
              IN  IF r.raised
                  THEN [raised |-> TRUE, failed |-> i, texts |-> texts, ocr |-> ocr \cup {i}]
                  ELSE SequentialPages(doc, i + 1, Append(texts, r.ret), ocr \cup {i})
         ELSE SequentialPages(doc, i + 1,
                              Append(texts, DirectText(i, Strip(doc[i].text))), ocr)

\* attributes of shared.util.config.AppConfig, the class of `config`
AppConfigAttrs ==
    {"ocr", "llm", "openai", "gemini", "api", "logging", "is_llm_enabled",
     "get_available_llm_providers", "get_llm_provider_config",
     "validate_configuration", "language"}

\* config.get(key, default): AttributeError unless the object has `get`
ConfigGet(default) == [raised |-> "get" \notin AppConfigAttrs, value |-> default]

\* the extraction branch of extract_markdown
ExtractPages(file, use_ocr) ==
    IF use_ocr /\ file.st_size > ParallelSizeLimit
    THEN run_parallel_ocr(file)
    ELSE IF ~file.openable
         THEN [raised |-> TRUE, failed |-> 0, texts |-> <<>>, opened |-> FALSE, ocr |-> {}]
         ELSE IF use_ocr
              THEN LET r == SequentialPages(file.doc, 1, <<>>, {})
                   IN  [raised |-> r.raised, failed |-> r.failed, texts |-> r.texts,
                        opened |-> TRUE, ocr |-> r.ocr]
              ELSE [raised |-> FALSE, failed |-> 0,
                    texts |-> [i \in DOMAIN file.doc |-> DirectText(i, file.doc[i].text)],
                    opened |-> TRUE, ocr |-> {}]

\* document_processing.extract_markdown(pdf_path, use_ocr): a missing file
\* and every exception of the body are turned into a returned "Error: ..."
\* string
extract_markdown(file, use_ocr) ==
    IF ~file.exists
    THEN [ret |-> ErrorStr("no existe"), raised |-> FALSE, opened |-> FALSE,
          failed |-> 0, ocr |-> {}, refineRaised |-> FALSE]
    ELSE LET use_llm == ConfigGet(FALSE)
         IN  IF use_llm.raised
             THEN [ret |-> ErrorStr("AttributeError"), raised |-> FALSE, opened |-> FALSE,
                   failed |-> 0, ocr |-> {}, refineRaised |-> FALSE]
             ELSE LET r == ExtractPages(file, use_ocr)
                  IN  [ret |-> IF r.raised THEN ErrorStr("Exception")
                               ELSE ContentStr(r.texts, use_llm.value),
                       raised |-> FALSE, opened |-> r.opened, failed |-> r.failed,
                       ocr |-> r.ocr, refineRaised |-> FALSE]

\* enumerate(texts, start=1) with f"## Page {page_num}\n\n{text.strip()}"
Sections(texts) ==
    [k \in DOMAIN texts |-> [heading |-> k, body |-> [texts[k] EXCEPT !.stripped = TRUE]]]

\* pymupdf_adapter.extract_markdown(pdf_path); llm is what the guarded
\* refinement block does: "off", "returns" or "raises"
pymupdf_extract_markdown(file, llm) ==
    LET r == run_parallel_ocr(file)
    IN  IF r.raised
        THEN [raised |-> TRUE, opened |-> r.opened, failed |-> r.failed, ocr |-> r.ocr,
              refineRaised |-> FALSE]
        ELSE [raised |-> FALSE, opened |-> TRUE, failed |-> 0, ocr |-> r.ocr,
              refineRaised |-> llm = "raises",
              ret |-> [py |-> "str", kind |-> "markdown", sections |-> Sections(r.texts),
                       refined |-> llm = "returns"]]

\* DocumentAdapter.extract_markdown(pdf_path)
DocumentAdapter_extract_markdown(file) == extract_markdown(file, TRUE)

ApplicationErrors ==
    {"BaseApplicationError", "DocumentError", "StorageError", "LLMError", "OCRError",
     "ValidationError", "ConfigurationError", "NetworkError", "FileError"}

\* exception classes the ports may raise
PortExceptions == {"FileNotFoundError", "PermissionError", "ValueError", "RuntimeError"}

\* ErrorHandler.handle_exception(exception, operation)
handle_exception(exc) ==
    IF exc \in ApplicationErrors THEN exc
    ELSE CASE exc = "FileNotFoundError" -> "FileError"
           [] exc = "PermissionError" -> "FileError"
           [] exc = "ValueError" -> "ValidationError"
           [] exc = "ConnectionError" -> "NetworkError"
           [] OTHER -> "BaseApplicationError"

\* what leaves execute when `exc` is raised inside its outer try
ExecuteRaise(exc) ==
    IF exc \in {"DocumentError", "StorageError", "LLMError"} THEN exc
    ELSE handle_exception(exc)

Raised(exc, raw, saveCalled, content, refineRaised) ==
    [raised |-> TRUE, exc |-> exc, raw |-> raw, saveCalled |-> saveCalled,
     content |-> content, refineRaised |-> refineRaised, refineReturned |-> FALSE]

\* variant: the refinement call is not wrapped in try/except
execute_unguarded(file, refine_with_llm, llm, save) ==
    IF ~file.exists
    THEN Raised(ExecuteRaise("DocumentError"), ErrorStr("none"), FALSE, ErrorStr("none"), FALSE)
    ELSE LET raw == DocumentAdapter_extract_markdown(file).ret
         IN  IF IsBlank(raw)
             THEN Raised(ExecuteRaise(handle_exception("DocumentError")), raw, FALSE, raw, FALSE)
             ELSE IF refine_with_llm /\ llm # "none"
                  THEN Raised(ExecuteRaise(llm), raw, FALSE, raw, TRUE)
                  ELSE LET refined == IF refine_with_llm THEN Formatted(raw) ELSE raw
                       IN  IF save # "none"
                           THEN Raised(ExecuteRaise(handle_exception(save)), raw, TRUE,
                                       refined, FALSE)
                           ELSE [raised |-> FALSE, exc |-> "none", raw |-> raw,
                                 saveCalled |-> TRUE, content |-> refined,
                                 refineRaised |-> FALSE, refineReturned |-> refine_with_llm,
                                 ret |-> [success |-> TRUE, llm_used |-> refine_with_llm]]

\* PDFToMarkdownUseCase.execute(pdf_path, options) with DocumentAdapter as
\* document port; llm and save are the exceptions raised by
\* llm_port.format_markdown and storage_port.save_markdown ("none": returns)
execute(file, refine_with_llm, llm, save) ==
    IF ~file.exists
    THEN Raised(ExecuteRaise("DocumentError"), ErrorStr("none"), FALSE, ErrorStr("none"), FALSE)
    ELSE LET raw == DocumentAdapter_extract_markdown(file).ret
         IN  IF IsBlank(raw)
             THEN Raised(ExecuteRaise(handle_exception("DocumentError")), raw, FALSE, raw, FALSE)
             ELSE LET llmRaised == refine_with_llm /\ llm # "none"
                      llm_used == refine_with_llm /\ llm = "none"
                      refined == IF llm_used THEN Formatted(raw) ELSE raw
                  IN  IF save # "none"
                      THEN Raised(ExecuteRaise(handle_exception(save)), raw, TRUE, refined,
                                  llmRaised)
                      ELSE [raised |-> FALSE, exc |-> "none", raw |-> raw,
                            saveCalled |-> TRUE, content |-> refined,
                            refineRaised |-> llmRaised, refineReturned |-> llm_used,
                            ret |-> [success |-> TRUE, llm_used |-> llm_used]]

DocCalls ==
    [op : {"call"}, fn : {"process_pdf_file"}, file : Files]
    \cup
    [op : {"call"}, fn : {"extract_markdown"}, file : Files, use_ocr : BOOLEAN]
    \cup
    [op : {"call"}, fn : {"pymupdf_extract_markdown"}, file : Files,
     llm : {"off", "returns", "raises"}]
    \cup
    [op : {"call"}, fn : {"execute"}, file : Files, refine_with_llm : BOOLEAN,
     llm : {"none", "RuntimeError"}, save : {"none", "PermissionError"}]

ProcessPdfFile ==
    /\ docOp.op = "call"
    /\ docOp.fn = "process_pdf_file"
    /\ docOp' = [op |-> "process_pdf_file", file |-> docOp.file,
                 out |-> process_pdf_file(docOp.file)]

ExtractMarkdown ==
    /\ docOp.op = "call"
    /\ docOp.fn = "extract_markdown"
    /\ docOp' = [op |-> "extract_markdown", file |-> docOp.file, use_ocr |-> docOp.use_ocr,
                 out |-> extract_markdown(docOp.file, docOp.use_ocr)]

PymupdfExtractMarkdown ==
    /\ docOp.op = "call"
    /\ docOp.fn = "pymupdf_extract_markdown"
    /\ docOp' = [op |-> "pymupdf_extract_markdown", file |-> docOp.file, llm |-> docOp.llm,
                 out |-> pymupdf_extract_markdown(docOp.file, docOp.llm)]

Execute ==
    /\ docOp.op = "call"
    /\ docOp.fn = "execute"
    /\ docOp' = [op |-> "execute", file |-> docOp.file,
                 refine_with_llm |-> docOp.refine_with_llm,
                 llm |-> docOp.llm, save |-> docOp.save,
                 out |-> execute(docOp.file, docOp.refine_with_llm, docOp.llm, docOp.save)]

(***************************************************************************)
(* run_parallel_ocr step by step (adapters/document_processing.py) and the *)
(* page sections pymupdf_adapter.extract_markdown builds from its list     *)
(***************************************************************************)
MaxCpu == 2

\* os.cpu_count(): None when the count cannot be determined
CpuCounts == {PyNone} \cup {PyInt(n) : n \in 1..MaxCpu}

\* `os.cpu_count() or 2 - 1`: the subtraction binds tighter than `or`
CpuCountOrDefault(c) == IF Truthy(c) THEN c.val ELSE 2 - 1

\* n_cores = max(1, os.cpu_count() or 2 - 1)
n_cores(c) == IF CpuCountOrDefault(c) > 1 THEN CpuCountOrDefault(c) ELSE 1

\* the parallel path reads no embedded text: one direct text is enough
ParFiles ==
    {f \in Files : /\ f.exists
                   /\ f.st_size > ParallelSizeLimit
                   /\ \A i \in DOMAIN f.doc : f.doc[i].text = Chars(0, TRUE)}

ParCalls ==
    [phase : {"call"}, file : ParFiles, cpu_count : CpuCounts,
     llm : {"off", "returns", "raises"}]

\* a submitted task whose worker has not finished
Pending == [done |-> FALSE]

\* _ocr_single((pdf_path, page_idx)): the outcome stored in the task's future
_ocr_single(file, i) ==
    LET r == document_processing_perform_ocr_on_page(i, file.doc[i].env)
    IN  IF r.raised THEN [done |-> TRUE, raised |-> TRUE]
        ELSE [done |-> TRUE, raised |-> FALSE, ret |-> r.ret]

\* variant: results taken in completion order (as_completed)
NextResultAsCompleted(p) ==
    IF Len(p.arrival) > Len(p.results) THEN p.arrival[Len(p.results) + 1] ELSE 0

\* list(executor.map(_ocr_single, tasks)): the iterator yields the futures
\* in submission order, whatever the order they complete in
NextResult(p) == Len(p.results) + 1

\* fitz.open(pdf_path), n_cores, tasks, executor.map submits every task
ParStart ==
    /\ pool.phase = "call"
    /\ pool' =
         IF ~pool.file.openable
         THEN [phase |-> "raised", file |-> pool.file, cpu_count |-> pool.cpu_count,
               llm |-> pool.llm, n_cores |-> 0, at |-> 0]
         ELSE [phase |-> "running", file |-> pool.file, cpu_count |-> pool.cpu_count,
               llm |-> pool.llm,
               n_cores |-> n_cores(pool.cpu_count),
               queue |-> [i \in 1..Len(pool.file.doc) |-> i],
               workers |-> [w \in 1..n_cores(pool.cpu_count) |-> 0],
               futures |-> [i \in 1..Len(pool.file.doc) |-> Pending],
               arrival |-> <<>>,
               results |-> <<>>]

\* an idle worker process takes the oldest queued task
WorkerTake(w) ==
    /\ pool.phase = "running"
    /\ w \in DOMAIN pool.workers
    /\ pool.workers[w] = 0
    /\ pool.queue # <<>>
    /\ pool' = [pool EXCEPT !.workers[w] = Head(pool.queue), !.queue = Tail(pool.queue)]

\* a worker process finishes _ocr_single for its task
WorkerFinish(w) ==
    /\ pool.phase = "running"
    /\ w \in DOMAIN pool.workers
    /\ pool.workers[w] # 0
    /\ pool' = [pool EXCEPT !.futures[pool.workers[w]] = _ocr_single(pool.file, pool.workers[w]),
                            !.arrival = Append(@, pool.workers[w]),
                            !.workers[w] = 0]

\* list(...) takes the next result; a task's exception is raised here
Collect ==
    /\ pool.phase = "running"
    /\ Len(pool.results) < Len(pool.file.doc)
    /\ LET i == NextResult(pool)
       IN  /\ i \in DOMAIN pool.futures
           /\ pool.futures[i].done
           /\ pool' = IF pool.futures[i].raised
                      THEN [phase |-> "raised", file |-> pool.file,
                            cpu_count |-> pool.cpu_count, llm |-> pool.llm,
                            n_cores |-> pool.n_cores, at |-> i]
                      ELSE [pool EXCEPT !.results = Append(@, pool.futures[i].ret)]

\* every result is in the list: the executor and the document are closed
\* and `return results` runs
ParReturn ==
    /\ pool.phase = "running"
    /\ Len(pool.results) = Len(pool.file.doc)
    /\ \A w \in DOMAIN pool.workers : pool.workers[w] = 0
    /\ pool' = [phase |-> "returned", file |-> pool.file, cpu_count |-> pool.cpu_count,
                llm |-> pool.llm, n_cores |-> pool.n_cores, arrival |-> pool.arrival,
                ret |-> pool.results]

\* pymupdf_adapter.extract_markdown after the list of page texts came back:
\* page sections, title, guarded document-level refinement (the module
\* parallel_ocr it calls is run_parallel_ocr here)
Assemble ==
    /\ pool.phase = "returned"
    /\ pool' = [phase |-> "assembled", file |-> pool.file, cpu_count |-> pool.cpu_count,
                llm |-> pool.llm, n_cores |-> pool.n_cores, arrival |-> pool.arrival,
                ret |-> pool.ret,
                out |-> [sections |-> Sections(pool.ret),
                         refined |-> pool.llm = "returns",
                         refineRaised |-> pool.llm = "raises"]]

InitOther ==
    /\ pool = [phase |-> "idle"]
    /\ conc = [phase |-> "idle"]
    /\ imgOp = [op |-> "init"]

InitCache ==
    InitCacheVars /\ refOp = [op |-> "init"] /\ docOp = [op |-> "init"] /\ InitOther

NextCache ==
    \/ GetCached /\ UNCHANGED <<refOp, docOp, pool, conc, imgOp>>
    \/ SaveResult /\ UNCHANGED <<refOp, docOp, pool, conc, imgOp>>
    \/ ClearCache /\ UNCHANGED <<refOp, docOp, pool, conc, imgOp>>
    \/ GetStats /\ UNCHANGED <<refOp, docOp, pool, conc, imgOp>>

SpecCache == InitCache /\ [][NextCache]_vars

C9_CacheFailureIsMiss ==
    [][ /\ (cacheOp'.op = "get" /\ cacheOp'.fail # "none") =>
               (cacheOp'.ret = PyNone /\ ~cacheOp'.raised)
        /\ (cacheOp'.op = "save" /\ cacheOp'.fail # "none") =>
               (cacheOp'.ret = FALSE /\ ~cacheOp'.raised /\ db' = db) ]_vars

\* a save whose commit failed, for a key that already had a stored row
C9_Witness ==
    /\ cacheOp.op = "save"
    /\ cacheOp.fail = "commit"
    /\ cacheOp.ret = FALSE
    /\ db[cacheOp.key].present
    /\ db[cacheOp.key].ocr_text # cacheOp.args.text

\* C10: on a working store get_stats returns the statistics record: entry
\* count = number of stored keys, size = sum of the stored text lengths,
\* last update = timestamp of the latest save.
C10_StatsRecord ==
    (cacheOp.op = "get_stats" /\ cacheOp.fail = "none") =>
        LET stored == {k \in Keys : saved[k] # PyNone}
            lens == [i \in 1..Cardinality(stored) |->
                        Len(saved[SetToSeq(stored)[i]].args.text)]
            r == cacheOp.ret
        IN  /\ "error" \notin DOMAIN r
            /\ r.total_entries = Cardinality(stored)
            /\ r.total_text_size_bytes = SumSeq(lens)
            /\ r.last_update = IF stored = {} THEN PyNone
                               ELSE PyInt(SetMax({saved[k].at : k \in stored}))

InitRefiner ==
    refOp \in RefinerCalls /\ docOp = [op |-> "init"] /\ InitCacheVars /\ InitOther

NextRefiner ==
    \/ Refine /\ UNCHANGED <<cacheVars, docOp, pool, conc, imgOp>>
    \/ PromptRefine /\ UNCHANGED <<cacheVars, docOp, pool, conc, imgOp>>
    \/ RefineMarkdown /\ UNCHANGED <<cacheVars, docOp, pool, conc, imgOp>>
    \/ RefineChunk /\ UNCHANGED <<cacheVars, docOp, pool, conc, imgOp>>

SpecRefiner == InitRefiner /\ [][NextRefiner]_vars

\* every provider call of the operation raised
AllCallsRaise ==
    /\ refOp.op \in {"refine", "prompt_refine"}
    /\ refOp.hasProvider
    /\ refOp.provider.raiseFirst > max_retries

\* C4: the refiner returns its input unchanged on failure. When every
\* provider call raises, refine(text) and prompt_refine(raw) return exactly
\* the text they were given.
C4_InputUnchangedOnFailure == AllCallsRaise => refOp.ret = refOp.text

InitDoc ==
    /\ docOp \in PageCalls \cup DocCalls
    /\ refOp = [op |-> "init"]
    /\ InitCacheVars
    /\ InitOther

NextDoc ==
    \/ PerformOcrOnPage /\ UNCHANGED <<cacheVars, refOp, pool, conc, imgOp>>
    \/ EnginePerformOcrOnPage /\ UNCHANGED <<cacheVars, refOp, pool, conc, imgOp>>
    \/ ProcessPdfFile /\ UNCHANGED <<cacheVars, refOp, pool, conc, imgOp>>
    \/ ExtractMarkdown /\ UNCHANGED <<cacheVars, refOp, pool, conc, imgOp>>
    \/ PymupdfExtractMarkdown /\ UNCHANGED <<cacheVars, refOp, pool, conc, imgOp>>
    \/ Execute /\ UNCHANGED <<cacheVars, refOp, pool, conc, imgOp>>

SpecDoc == InitDoc /\ [][NextDoc]_vars

\* C3: perform_ocr_on_page never raises. Whatever step of the page pipeline
\* fails, the run ends by returning text to the caller.
C3_PageNeverRaises ==
    docOp.op = "perform_ocr_on_page" => ~docOp.out.raised

\* the result holds the text of page i
HasPage(pages, i) == \E j \in DOMAIN pages : pages[j].page = i

\* C2: a document that was opened is always produced. When the processing
\* of page k raises in process_pdf_file or extract_markdown, the result is
\* not an error value and still holds the text of every other page.
C2_DocumentAlwaysProduced ==
    (/\ docOp.op \in {"process_pdf_file", "extract_markdown"}
     /\ docOp.out.opened
     /\ docOp.out.failed # 0) =>
        /\ docOp.out.ret.kind # "error"
        /\ \A i \in DOMAIN docOp.file.doc \ {docOp.out.failed} :
               HasPage(docOp.out.ret.pages, i)

C6_OcrIffNeeded ==
    (/\ docOp.op = "extract_markdown"
     /\ docOp.use_ocr
     /\ docOp.file.exists
     /\ docOp.file.openable) =>
        /\ docOp.out.ocr = {i \in DOMAIN docOp.file.doc :
                               needs_ocr(docOp.file.doc[i], OcrThreshold)}
        /\ \A i \in DOMAIN docOp.file.doc :
               ~needs_ocr(docOp.file.doc[i], OcrThreshold) =>
                   /\ docOp.out.ret.kind = "content"
                   /\ \E j \in DOMAIN docOp.out.ret.pages :
                          /\ docOp.out.ret.pages[j].page = i
                          /\ docOp.out.ret.pages[j].src = "direct"

\* C7: a source that is missing or cannot be opened is a hard failure with
\* no partial result: extract_markdown returns no content for it, and
\* execute neither calls save_markdown nor returns a success result.
C7_SourceUnavailableIsHardFailure ==
    /\ (docOp.op = "extract_markdown" /\ ~(docOp.file.exists /\ docOp.file.openable)) =>
           (docOp.out.raised \/ docOp.out.ret.kind # "content")
    /\ (docOp.op = "execute" /\ ~(docOp.file.exists /\ docOp.file.openable)) =>
           (~docOp.out.saveCalled /\ docOp.out.raised)

InitPar ==
    /\ pool \in ParCalls
    /\ refOp = [op |-> "init"]
    /\ docOp = [op |-> "init"]
    /\ conc = [phase |-> "idle"]
    /\ imgOp = [op |-> "init"]
    /\ InitCacheVars

NextPar ==
    \/ ParStart /\ UNCHANGED <<cacheVars, refOp, docOp, conc, imgOp>>
    \/ (\E w \in 1..MaxCpu : WorkerTake(w)) /\ UNCHANGED <<cacheVars, refOp, docOp, conc, imgOp>>
    \/ (\E w \in 1..MaxCpu : WorkerFinish(w)) /\ UNCHANGED <<cacheVars, refOp, docOp, conc, imgOp>>
    \/ Collect /\ UNCHANGED <<cacheVars, refOp, docOp, conc, imgOp>>
    \/ ParReturn /\ UNCHANGED <<cacheVars, refOp, docOp, conc, imgOp>>
    \/ Assemble /\ UNCHANGED <<cacheVars, refOp, docOp, conc, imgOp>>

SpecPar == InitPar /\ [][NextPar]_vars

InitConc ==
    /\ db = [k \in Keys |-> NoRow]
    /\ mem = <<>>
    /\ clock = 0
    /\ saved = [k \in Keys |-> PyNone]
    /\ cacheOp = [op |-> "init"]
    /\ refOp = [op |-> "init"]
    /\ docOp = [op |-> "init"]
    /\ pool = [phase |-> "idle"]
    /\ imgOp = [op |-> "init"]
    /\ \E procs \in [Workers -> ConcCalls] :
           conc = [phase |-> "run", lock |-> NoLock, procs |-> procs,
                   executed |-> [k \in Keys |-> {}],
                   committed |-> [k \in Keys |-> {}]]

ConcUnchanged == UNCHANGED <<mem, saved, cacheOp, refOp, docOp, pool, imgOp>>

NextConc ==
    \/ (\E w \in Workers : SaveExecute(w)) /\ ConcUnchanged
    \/ (\E w \in Workers : SaveCommitLock(w)) /\ ConcUnchanged
    \/ (\E w \in Workers : SaveWrite1(w)) /\ ConcUnchanged
    \/ (\E w \in Workers : SaveWrite2(w)) /\ ConcUnchanged
    \/ (\E w \in Workers : SaveReturn(w)) /\ ConcUnchanged
    \/ (\E w \in Workers : SaveBusy(w)) /\ ConcUnchanged
    \/ (\E w \in Workers : GetSelect(w)) /\ ConcUnchanged
    \/ (\E w \in Workers : GetReturn(w)) /\ ConcUnchanged
    \/ (\E w \in Workers : GetBusy(w)) /\ ConcUnchanged

SpecConc == InitConc /\ [][NextConc]_vars

\* every worker has returned from its call
AllDone == conc.phase = "run" /\ \A w \in Workers : Proc(w).pc = "done"

ImageCalls == PsmCalls \cup TableCalls \cup RegionCalls \cup MaskCalls \cup TextCalls \cup PostCalls \cup StageCalls

InitImage ==
    /\ imgOp \in ImageCalls
    /\ refOp = [op |-> "init"]
    /\ docOp = [op |-> "init"]
    /\ pool = [phase |-> "idle"]
    /\ conc = [phase |-> "idle"]
    /\ InitCacheVars

ImageUnchanged == UNCHANGED <<cacheVars, refOp, docOp, pool, conc>>

NextImage ==
    \/ ImageProcessingEstimatePsm /\ ImageUnchanged
    \/ EstimatePsm /\ ImageUnchanged
    \/ DetectTableCells /\ ImageUnchanged
    \/ OcrTableToMarkdown /\ ImageUnchanged
    \/ TablesOcrTableToMarkdown /\ ImageUnchanged
    \/ DetectTableRegions /\ ImageUnchanged
    \/ CreateMaskWithoutTables /\ ImageUnchanged
    \/ ResultWithTables /\ ImageUnchanged
    \/ Postprocess /\ ImageUnchanged
    \/ PostprocessAgain /\ ImageUnchanged
    \/ Stage /\ ImageUnchanged

SpecImage == InitImage /\ [][NextImage]_vars

\* the mode the contour-count table gives for n
ContourMode(n) ==
    CASE n < 5 -> 7
      [] 5 <= n /\ n <= 20 -> 6
      [] 20 < n /\ n <= 50 -> 4
      [] n > 50 -> 11

\* C12: the contour-count policy is a total, deterministic, monotonic
\* decision table. Every count n >= 0 gets the mode of its bucket (n < 5:
\* 7, 5..20: 6, 21..50: 4, above 50: 11); the boundary values 20 and 50
\* belong to the lower bucket; the mode of n differs from the mode of n - 1
\* exactly when n - 1 is the last count of a bucket (4, 20, 50).
C12_ContourPolicyTable ==
    imgOp.op = "image_processing_estimate_psm_for_page" =>
        LET n == imgOp.num_boxes
        IN  /\ imgOp.ret \in {7, 6, 4, 11}
            /\ imgOp.ret = ContourMode(n)
            /\ n > 0 => ((imgOp.ret # image_processing_estimate_psm_for_page(n - 1))
                            <=> (n - 1 \in {4, 20, 50}))

\* the boundary count 20 was resolved to the uniform-block mode
C12_Witness ==
    /\ imgOp.op = "image_processing_estimate_psm_for_page"
    /\ imgOp.num_boxes = 20
    /\ imgOp.ret = 6

\* C13: the layout estimator applies its four rules in order, first match
\* wins: no extractable text gives 3; otherwise block edges in at least 3
\* distinct of the 5 ranges give 1, whatever the number of blocks; otherwise
\* aspect ratio > 1.3 gives 6; otherwise 4.
C13_LayoutRulesInOrder ==
    imgOp.op = "estimate_psm_for_page" =>
        imgOp.ret =
            IF imgOp.text_len = 0 THEN 3
            ELSE IF Cardinality(XRanges(imgOp.text_blocks, imgOp.size[1])) >= 3 THEN 1
            ELSE IF 10 * imgOp.size[1] > 13 * imgOp.size[2] THEN 6
            ELSE 4

\* C14: table degeneracy fallback. With fewer than 4 cell contours of area
\* >= 100 in the crop, ocr_table_to_markdown returns the OCR text of the
\* whole crop between two fence lines: no header row, no separator row, no
\* delimiter-joined data row.
C14_DegenerateTableFenced ==
    (imgOp.op = "ocr_table_to_markdown" /\ Len(CellContours(imgOp.contours)) < 4) =>
        /\ Len(imgOp.ret) = 3
        /\ \A i \in DOMAIN imgOp.ret : imgOp.ret[i].kind = "literal"
        /\ imgOp.ret[1].text = Fence
        /\ imgOp.ret[2].text = CropText
        /\ imgOp.ret[3].text = Fence

\* four contours, one of them below the area threshold: the crop is fenced
C14_Witness ==
    /\ imgOp.op = "ocr_table_to_markdown"
    /\ Len(imgOp.contours) = 4
    /\ Len(CellContours(imgOp.contours)) = 3
    /\ imgOp.ret[1] = Literal(Fence)

\* the keys of grid row r
RowKeys(cells, r) == {k \in DOMAIN cells : k[1] = r}

\* number of rows of a grid
RowCount(cells) == Cardinality({k[1] : k \in DOMAIN cells})

\* the largest number of cells in a row of the grid
MaxColumns(cells) ==
    SetMax({Cardinality(RowKeys(cells, r)) : r \in {k[1] : k \in DOMAIN cells}})

\* C15: row/column padding. Every table produced by either
\* ocr_table_to_markdown has header, separator and data rows of exactly N
\* cells, N the largest number of columns of a detected row; there is one
\* output row per detected row, in order; every detected cell is in its row
\* at its column and the added cells are empty.
C15_RowsPaddedToMaxColumns ==
    /\ (imgOp.op = "ocr_table_to_markdown"
           /\ DOMAIN detect_table_cells(imgOp.contours) # {}) =>
           LET cells == detect_table_cells(imgOp.contours)
               R == RowCount(cells)
               N == MaxColumns(cells)
               md == imgOp.ret
           IN  /\ Len(md) = R + 2
               /\ \A i \in DOMAIN md : md[i].kind = "joined" /\ Len(md[i].cells) = N
               /\ \A r \in 0..(R - 1) : \A c \in 0..(N - 1) :
                      md[r + 3].cells[c + 1] =
                          IF <<r, c>> \in DOMAIN cells THEN CellText(cells[<<r, c>>]) ELSE <<>>
    /\ (imgOp.op = "tables_ocr_table_to_markdown" /\ imgOp.ret # <<>>) =>
           LET lines == NonBlankLines(imgOp.raw_text)
               N == SetMax({Len(lines[j]) : j \in DOMAIN lines})
               md == imgOp.ret
           IN  /\ Len(md) = Len(lines) + 1
               /\ \A i \in DOMAIN md : md[i].kind = "joined" /\ Len(md[i].cells) = N
               /\ \A j \in DOMAIN lines : \A c \in 1..N :
                      md[IF j = 1 THEN 1 ELSE j + 1].cells[c] =
                          IF c <= Len(lines[j]) THEN lines[j][c] ELSE <<>>

\* C16: cell grid of detect_table_cells. Every cell box has exactly one
\* (row, column) key; rows are 0..R-1 and the columns of a row 0..C-1; rows
\* are in increasing order of their reference Y (the smallest Y of the row)
\* and each later row starts more than 10 below the reference of the row
\* before; in a row X does not decrease with the column and any two boxes
\* differ in Y by at most 10.
C16_CellGrid ==
    (imgOp.op = "detect_table_cells" /\ DOMAIN imgOp.ret # {}) =>
        LET cells == imgOp.ret
            keys == DOMAIN cells
            cc == CellContours(imgOp.contours)
            R == RowCount(cells)
            RefY(r) == CHOOSE y \in {cells[k].y : k \in RowKeys(cells, r)} :
                           \A k \in RowKeys(cells, r) : y <= cells[k].y
        IN  /\ Cardinality(keys) = Len(cc)
            /\ \A b \in ContourKinds :
                   Cardinality({k \in keys : cells[k] = b})
                       = Cardinality({i \in DOMAIN cc : cc[i] = b})
            /\ {k[1] : k \in keys} = 0..(R - 1)
            /\ \A r \in 0..(R - 1) :
                   {k[2] : k \in RowKeys(cells, r)} = 0..(Cardinality(RowKeys(cells, r)) - 1)
            /\ \A r \in 1..(R - 1) : RefY(r) > RefY(r - 1) + 10
            /\ \A k1, k2 \in keys :
                   k1[1] = k2[1] =>
                       /\ Abs(cells[k1].y - cells[k2].y) <= 10
                       /\ k1[2] <= k2[2] => cells[k1].x <= cells[k2].x

\* contours given out of order form two rows, the first with three boxes
\* whose Y differ within the tolerance
C16_Witness ==
    /\ imgOp.op = "detect_table_cells"
    /\ DOMAIN imgOp.ret # {}
    /\ imgOp.contours[1].y > imgOp.contours[2].y
    /\ imgOp.contours[1].x > imgOp.contours[3].x
    /\ RowCount(imgOp.ret) = 2
    /\ Cardinality(RowKeys(imgOp.ret, 0)) = 3
    /\ \E k1, k2 \in RowKeys(imgOp.ret, 0) : imgOp.ret[k1].y # imgOp.ret[k2].y

\* the i-th box of the call that is large enough to be kept
Kept(boxes) == SelectSeq(boxes, LAMBDA b : BigEnough(b, PageSize))

\* C17: every box of at least 0.5% of the image area yields one region, which
\* lies inside the image, contains the box, and reaches exactly 10 pixels
\* beyond the box on each side or stops at the image edge
C17_RegionsPaddedAndClamped ==
    imgOp.op = "detect_table_regions" =>
        LET kept == Kept(imgOp.boxes)
        IN  /\ Len(imgOp.ret) = Len(kept)
            /\ \A i \in 1..Len(kept) :
                   LET b == kept[i]
                       r == imgOp.ret[i]
                   IN  /\ r.x >= 0 /\ r.y >= 0
                       /\ r.x + r.w <= PageSize[1] /\ r.y + r.h <= PageSize[2]
                       /\ r.x <= b.x /\ b.x + b.w <= r.x + r.w
                       /\ r.y <= b.y /\ b.y + b.h <= r.y + r.h
                       /\ r.x = Max(0, b.x - 10)
                       /\ r.y = Max(0, b.y - 10)
                       /\ r.x + r.w = Min(PageSize[1], b.x + b.w + 10)
                       /\ r.y + r.h = Min(PageSize[2], b.y + b.h + 10)

\* a pixel of the page lies in one of the detected regions
InSomeRegion(p, regions) ==
    \E i \in 1..Len(regions) :
        /\ regions[i].x <= p[1] /\ p[1] < regions[i].x + regions[i].w
        /\ regions[i].y <= p[2] /\ p[2] < regions[i].y + regions[i].h

\* C19: the masked frame is the page with every pixel inside a detected table
\* region set to white and every other pixel unchanged
C19_MaskBlanksTableRegions ==
    (imgOp.op = "create_mask_without_tables" /\ imgOp.regions # <<>>) =>
        /\ ~imgOp.out.raised
        /\ \A p \in DOMAIN imgOp.img.px :
               imgOp.out.ret.px[p] =
                   IF InSomeRegion(p, imgOp.regions) THEN White ELSE imgOp.img.px[p]

\* t ends with s
IsSuffix(s, t) == Len(s) <= Len(t) /\ SubSeq(t, Len(t) - Len(s) + 1, Len(t)) = s

\* C20: the returned page text ends with the table Markdown exactly as the
\* table reconstructor produced it, after the post-processed prose
C20_TablesAppendedAfterPostprocessing ==
    imgOp.op = "result_with_tables" =>
        /\ IsSuffix(imgOp.table_md, imgOp.ret)
        /\ SubSeq(imgOp.ret, 1, Len(imgOp.ret) - Len(imgOp.table_md))
               \in {postprocess(imgOp.text) \o sep : sep \in {<<>>, <<"\n">>, <<"\n", "\n">>}}

\* C18: a page whose image passes has_visual_table, with no external call
\* failing, comes back from the page pipeline without an exception and with
\* table content in its text
C18_VisualTableYieldsTable ==
    (/\ docOp.op = "perform_ocr_on_page"
     /\ docOp.version = "ocr_engine"
     /\ docOp.env.table # "no"
     /\ docOp.env.failAt = "none") =>
        /\ ~docOp.out.raised
        /\ docOp.out.ret.tables

\* C21: running the post-processing stages on their own output changes nothing
C21_PostprocessIdempotent ==
    (imgOp.op = "postprocess" /\ imgOp.runs = 2) => imgOp.ret = imgOp.text

\* C22: every stage of the post-processor returns a text and raises nothing,
\* whatever the state of the corrections file; with the file absent the
\* corrections stage returns its input
C22_StagesTotal ==
    imgOp.op = "stage" =>
        /\ ~imgOp.out.raised
        /\ (imgOp.stage = "apply_manual_corrections" /\ ~imgOp.file.exists)
               => imgOp.out.ret = imgOp.text

\* the number of cores the claim counts with: 2 when os.cpu_count() is None
AvailableCores(c) == IF c = PyNone THEN 2 ELSE c.val

\* C23: run_parallel_ocr creates its pool with max(1, c - 1) workers, c the
\* number of available cores
C23_WorkersCoresMinusOne ==
    pool.phase = "running" =>
        LET c == AvailableCores(pool.cpu_count)
        IN  pool.n_cores = (IF c - 1 >= 1 THEN c - 1 ELSE 1)

\* C24: _refine_chunk calls the provider at most max_retries times; when
\* every call raises it stops after max_retries calls and returns the chunk;
\* an empty reply returns the chunk after one call and a non-empty reply is
\* returned stripped after one call
C24_RefineChunkBoundedRetries ==
    (refOp.op = "_refine_chunk" /\ Strip(refOp.text) # <<>>) =>
        LET p == refOp.provider
            reply == ProviderReply(p, refOp.text)
            empty == reply.py = "None" \/ Strip(reply.s) = <<>>
        IN  /\ refOp.calls <= max_retries
            /\ p.raiseFirst > max_retries
                   => (refOp.calls = max_retries /\ refOp.ret = refOp.text)
            /\ (p.raiseFirst = 0 /\ empty) => (refOp.calls = 1 /\ refOp.ret = refOp.text)
            /\ (p.raiseFirst = 0 /\ ~empty)
                   => (refOp.calls = 1 /\ refOp.ret = Strip(reply.s))

\* the fragments of the call that reach the provider: _refine_chunk returns a
\* blank fragment without calling it
SentToProvider == SelectSeq(refOp.sent, LAMBDA f : Strip(f) # <<>>)

\* C25: every fragment refine sends to the provider is at most
\* max_chunk_size long, unless it is one single paragraph
C25_FragmentsWithinChunkSize ==
    (refOp.op = "refine" /\ refOp.hasProvider) =>
        \A i \in 1..Len(SentToProvider) :
            \/ Len(SentToProvider[i]) <= refOp.max_chunk_size
            \/ Len(SplitParagraphs(SentToProvider[i])) = 1

\* the text _process_large_text receives from refine
Corrected == _correct_ocr_errors(refOp.text)

\* refine took the _process_large_text branch
LargePath ==
    /\ refOp.op = "refine"
    /\ refOp.hasProvider
    /\ Len(Corrected) > refOp.max_chunk_size

RECURSIVE ParagraphsOf(_)
ParagraphsOf(fragments) ==
    IF fragments = <<>> THEN <<>>
    ELSE SplitParagraphs(Head(fragments)) \o ParagraphsOf(Tail(fragments))

\* the paragraphs that are not blank, each stripped
StrippedParagraphs(t) ==
    LET nonblank == SelectSeq(SplitParagraphs(t), LAMBDA q : Strip(q) # <<>>)
    IN  [i \in 1..Len(nonblank) |-> Strip(nonblank[i])]

\* every paragraph is handed over in exactly one fragment, in order
EachParagraphOnce == ParagraphsOf(refOp.sent) = SplitParagraphs(Corrected)

\* C26 as stated: the paragraphs are sent once each and in order, and with a
\* provider that returns its prompt the paragraphs of the output are those
\* of the input
C26_ParagraphsPreservedExactly ==
    LargePath =>
        /\ EachParagraphOnce
        /\ refOp.provider.reply = "echo"
               => SplitParagraphs(refOp.ret) = SplitParagraphs(Corrected)

\* C26: the paragraphs are sent once each and in order, and with a provider
\* that returns its prompt the non-blank paragraphs of the output are those
\* of the input, up to white space at the ends of each (every fragment reply
\* is stripped)
C26_ParagraphsPreserved ==
    LargePath =>
        /\ EachParagraphOnce
        /\ refOp.provider.reply = "echo"
               => StrippedParagraphs(refOp.ret) = StrippedParagraphs(Corrected)

\* a text of two paragraphs sent as two fragments and echoed back
C26_Witness ==
    /\ LargePath
    /\ refOp.provider.reply = "echo"
    /\ Len(refOp.sent) = 2
    /\ \A i \in 1..2 : Strip(refOp.sent[i]) # <<>>
    /\ refOp.ret = Corrected

\* the last operation put the key in the in-memory layer: a save that
\* succeeded or a lookup that found the row
JustCached(k) ==
    /\ cacheOp.op \in {"save", "get"}
    /\ cacheOp.key = k
    /\ IF cacheOp.op = "save" THEN cacheOp.ret ELSE cacheOp.ret # PyNone

\* C27: a lookup that directly follows a successful save or a successful
\* lookup of the same key returns the stored result from memory, whether or
\* not the persistent store can be read at that moment
C27_MemoryLayerServesRepeats ==
    [][ \A k \in Keys :
          (JustCached(k) /\ cacheOp'.op = "get" /\ cacheOp'.key = k)
              => cacheOp'.ret = RowResult(db[k]) ]_vars

\* a lookup of a key with no stored row returns None
AbsentKeyIsMiss ==
    (cacheOp'.op = "get" /\ ~db[cacheOp'.key].present) => cacheOp'.ret = PyNone

\* only a save of the key stores a row for it
OnlySaveStores ==
    \A k \in Keys :
        (~db[k].present /\ db'[k].present) => (cacheOp'.op = "save" /\ cacheOp'.key = k)

\* clear_cache(memory_only=True) leaves the stored rows alone, and a lookup
\* on a working store returns the stored row of its key
MemoryOnlyKeepsRows ==
    /\ (cacheOp'.op = "clear" /\ cacheOp'.memory_only) => db' = db
    /\ (cacheOp'.op = "get" /\ cacheOp'.fail = "none" /\ db[cacheOp'.key].present)
           => cacheOp'.ret = RowResult(db[cacheOp'.key])

C29_ExecuteErrorClasses ==
    docOp.op = "execute" =>
        /\ ~docOp.out.raised => (docOp.out.saveCalled /\ docOp.out.ret.success)
        /\ (docOp.out.saveCalled /\ docOp.save # "none")
               => (docOp.out.raised /\ docOp.out.exc = "StorageError")
        /\ (docOp.file.exists /\ IsBlank(docOp.out.raw))
               => (docOp.out.raised /\ docOp.out.exc = "DocumentError"
                   /\ ~docOp.out.saveCalled)


\* the page whose stripped text has n characters
PageOfLength(n) == [text |-> Chars(n, TRUE)]

\* the estimator was applied to a page that ocr_engine.needs_ocr sends to OCR
EstimatedOcrPage ==
    /\ imgOp.op = "estimate_psm_for_page"
    /\ engine_needs_ocr(PageOfLength(imgOp.text_len))

\* C30: on every page that ocr_engine.process_pdf_file sends to OCR (fewer
\* than 50 extractable characters) the layout estimator returns mode 3: its
\* column (1), uniform-block (6) and continuous-text (4) outcomes need more
\* than 100 characters and do not occur for such a page.
C30_OcrPagesGetModeThree == EstimatedOcrPage => imgOp.ret = 3

\* a 49-character page whose blocks span three ranges on a wide image, which
\* would be a column layout had it enough text, is given mode 3
C30_Witness ==
    /\ EstimatedOcrPage
    /\ imgOp.text_len = 49
    /\ Len(imgOp.text_blocks) > 3
    /\ Cardinality(XRanges(imgOp.text_blocks, imgOp.size[1])) >= 3
    /\ imgOp.size = <<14, 10>>
    /\ imgOp.ret = 3

====
